---- MODULE Spec2Model ----
(***************************************************************************)
(* Replicator plugin (src/index.js): the browser-side G-code generation of *)
(* the replication dialog.  generateReplicatedGCode and its helpers are    *)
(* modelled as a state machine whose steps are the phases and loop         *)
(* iterations of the function.                                             *)
(*                                                                         *)
(* A source line is held as what the code's string tests can see of it:    *)
(*   kind   how the trimmed text begins: "code", "paren" (the whole line   *)
(*          is one "( ... )" comment), "semi" (';'), "pct" ('%'), "blank"  *)
(*   opname the text inside the parentheses is a short plain name          *)
(*          (isOperationNameComment's tests on the content)                *)
(*   words  the G/M words that occur in the text                           *)
(*   tc     the tool word of the line: "none", "M6T" (M6 T<n>),            *)
(*          "TM6" (T<n> M6) or "T" (a T<n> word without M6); tnum is <n>   *)
(*   dec    the line carries further text (an N number, a trailing         *)
(*          comment), so that it is not equal to its single word           *)
(*   x, y   the numerals that follow each X / Y letter, in text order      *)
(*   inl    the numerals that follow an X letter inside the text of a      *)
(*          trailing comment of the line, as in "G1 Z-1 (FIX2)"            *)
(* Numerals are integers in units of 1/10000, so that a value with four    *)
(* decimals is representable and toFixed(3) is a real rounding.            *)
(***************************************************************************)
EXTENDS Integers, Sequences, FiniteSets, TLC

\* generateReplicatedGCode
VARIABLES src, opt, pc, skipSet, positions, segments, parts3, output, posIndex, grpIndex, fn
\* analyzeGCodeBounds
VARIABLES gcodeContent, lineNo, current, modal, bounds, returned

\* the replication dialog: its constants, its input fields, what updatePreview
\* last displayed, and the call of generateReplicatedGCode the last handler made
VARIABLES dialog, fields, preview, genCall
\* the host application (jobLoaded, the G-code cache), the arguments the tool
\* menu callback opened the dialog with, and the last load-temp request
VARIABLES server, dialogArgs, loadTemp
\* one closure of createOffsetFn called line after line: the lines, how many
\* of them have been passed, the closure's state, the lines returned, and the
\* modes analyzeGCodeBounds holds after the same lines
VARIABLES fnLines, fnAt, fnClosure, fnOut, fnModal
\* one call of calculateArcBounds: its arguments and what it returned
VARIABLES arcCall, arcBox

genVars == <<src, opt, pc, skipSet, positions, segments, parts3, output, posIndex, grpIndex, fn>>
boundsVars == <<gcodeContent, lineNo, current, modal, bounds, returned>>
dialogVars == <<dialog, fields, preview, genCall>>
jobVars == <<server, dialogArgs, loadTemp>>
closureVars == <<fnLines, fnAt, fnClosure, fnOut, fnModal>>
arcVars == <<arcCall, arcBox>>

vars == <<genVars, boundsVars, dialogVars, jobVars, closureVars, arcVars>>

\* What a step of generateReplicatedGCode leaves alone.
outsideGen == <<boundsVars, dialogVars, jobVars, closureVars, arcVars>>
\* What a step of analyzeGCodeBounds leaves alone.
outsideBounds == <<genVars, dialogVars, jobVars, closureVars, arcVars>>
\* What an event of the dialog leaves alone.
outsideDialog == <<genVars, boundsVars, jobVars, closureVars, arcVars>>
\* What a load or a replication leaves alone.
outsideJob == <<genVars, boundsVars, dialogVars, closureVars, arcVars>>
\* What a call of the offset closure leaves alone.
outsideClosure == <<genVars, boundsVars, dialogVars, jobVars, arcVars>>
\* What a call of calculateArcBounds leaves alone.
outsideArc == <<genVars, boundsVars, dialogVars, jobVars, closureVars>>

(************************* bounds of the model *****************************)
MaxLines == 4
MaxRows == 2
MaxCols == 2
MaxSkipNum == 5

(***************************** generic helpers ******************************)
Range(s) == {s[k] : k \in 1..Len(s)}

Min2(a, b) == IF a <= b THEN a ELSE b

(***************************** lines ***************************************)
Ln(kind, opname, words, tc, tnum, dec, x, y) ==
    [kind |-> kind, opname |-> opname, words |-> words, tc |-> tc, tnum |-> tnum,
     dec |-> dec, x |-> x, y |-> y, inl |-> <<>>]

Code(words, x, y) == Ln("code", FALSE, words, "none", 0, FALSE, x, y)
InfoComment == Ln("paren", FALSE, {}, "none", 0, FALSE, <<>>, <<>>)
OpComment == Ln("paren", TRUE, {}, "none", 0, FALSE, <<>>, <<>>)
Blank == Ln("blank", FALSE, {}, "none", 0, FALSE, <<>>, <<>>)
ToolLine(form, n) == Ln("code", FALSE, {}, form, n, FALSE, <<>>, <<>>)
EndLine == Ln("code", FALSE, {"M30"}, "none", 0, TRUE, <<>>, <<>>)

\* s.includes(t) on the words of a line: "G90" is a substring of "G90.1" too.
Superstrings(t) ==
    CASE t = "G90" -> {"G90", "G90.1"}
      [] t = "G91" -> {"G91", "G91.1"}
      [] OTHER -> {t}

includes(line, t) == line.words \cap Superstrings(t) # {}

startsWithParen(line) == line.kind = "paren"
startsWithSemi(line) == line.kind = "semi"
isBlank(line) == line.kind = "blank"

\* trimmed.includes('X') / /[XY][+-]?\d/: an X or Y letter with its numeral.
hasX(line) == Len(line.x) > 0 \/ Len(line.inl) > 0
hasY(line) == Len(line.y) > 0

\* trimmed === w : the line is that single word and nothing else.
isExactly(line, w) ==
    /\ line.kind = "code"
    /\ line.words = {w}
    /\ line.tc = "none"
    /\ ~line.dec
    /\ ~hasX(line) /\ ~hasY(line)

\* Variant: the fourth decimal is cut off instead of rounded.
toFixed3Truncating(v) ==
    IF v >= 0 THEN (v \div 10) * 10 ELSE 0 - ((0 - v) \div 10) * 10

\* Number.prototype.toFixed(3) on a value in units of 1/10000: the nearest
\* multiple of 10 (a tie goes away from zero here; on a double the tie is
\* decided by the binary value, and the programs explored produce no tie).
toFixed3(v) ==
    IF v >= 0 THEN ((v + 5) \div 10) * 10 ELSE 0 - (((0 - v) + 5) \div 10) * 10

(************************ the offset transformer ****************************)
createOffsetFn(offsetX, offsetY) ==
    [offsetX |-> offsetX, offsetY |-> offsetY, isAbsolute |-> TRUE]

\* One call of the closure createOffsetFn returns: the closure's state after
\* the call and the line it returns.
offsetFn(f, line) ==
    IF startsWithParen(line) \/ startsWithSemi(line) \/ isBlank(line) \/ includes(line, "G53")
    THEN [fn |-> f, ln |-> line]
    ELSE
      LET a1 == IF includes(line, "G90") /\ ~includes(line, "G90.1") THEN TRUE ELSE f.isAbsolute
          a2 == IF includes(line, "G91") /\ ~includes(line, "G91.1") THEN FALSE ELSE a1
          f2 == [f EXCEPT !.isAbsolute = a2]
      IN  IF ~hasX(line) /\ ~hasY(line) THEN [fn |-> f2, ln |-> line]
          ELSE IF ~a2 THEN [fn |-> f2, ln |-> line]
          ELSE [fn |-> f2,
                ln |-> [line EXCEPT
                          !.x = [k \in 1..Len(line.x) |-> toFixed3(line.x[k] + f.offsetX)],
                          !.inl = [k \in 1..Len(line.inl) |-> toFixed3(line.inl[k] + f.offsetX)],
                          !.y = [k \in 1..Len(line.y) |-> toFixed3(line.y[k] + f.offsetY)]]]

(************************** line classification *****************************)
isGcodeComment(line) == startsWithSemi(line) \/ startsWithParen(line)

\* SPINDLE_STOP_PATTERN: M5 with leading zeros tolerated, not M50.
isSpindleStopCommand(line) ==
    /\ ~isGcodeComment(line)
    /\ line.words \cap {"M5", "M05"} # {}

isOperationNameComment(line) == startsWithParen(line) /\ line.opname

\* /\bM0*[34]\b/
isSpindleStart(line) == line.words \cap {"M3", "M03", "M4", "M04"} # {}

\* /[XY][+-]?\d/ and no G53
hasXY(line) == (hasX(line) \/ hasY(line)) /\ ~includes(line, "G53")

isOperationStart(line) ==
    \/ isSpindleStart(line)
    \/ /\ line.words \cap {"G0", "G00", "G1", "G01"} # {}
       /\ hasX(line) \/ hasY(line)
       /\ ~includes(line, "G53")

\* /\bM0*30\b/ or /\bM0*2\b/
isProgramEndWord(line) == line.words \cap {"M30", "M030", "M2", "M02"} # {}

\* M6\s*T(\d+) | T(\d+)\s*M6 anywhere in the line, or the whole line ^T(\d+)$
isToolChange(line) ==
    \/ line.tc \in {"M6T", "TM6"}
    \/ /\ line.tc = "T"
       /\ line.kind = "code" /\ line.words = {} /\ ~line.dec
       /\ ~hasX(line) /\ ~hasY(line)

(************************* skip specification *******************************)
\* The skip input after split(',').map(trim).filter(s => s): a sequence of
\* parts; a part is the sequence of its '-'-separated fields; a field is what
\* parseInt(field, 10) makes of it, [nan |-> TRUE] or a number, and what its
\* text is besides: empty, or a number followed by further characters that
\* parseInt does not read ("2 3", "7x", "1.5").
Num(n) == [nan |-> FALSE, v |-> n, junk |-> FALSE, empty |-> FALSE]
NaN == [nan |-> TRUE, v |-> 0, junk |-> FALSE, empty |-> FALSE]
NumJunk(n) == [nan |-> FALSE, v |-> n, junk |-> TRUE, empty |-> FALSE]
EmptyField == [nan |-> TRUE, v |-> 0, junk |-> FALSE, empty |-> TRUE]

RECURSIVE parseSkipParts(_, _)
parseSkipParts(partsSeq, maxParts) ==
    IF partsSeq = <<>> THEN {}
    ELSE
      LET part == Head(partsSeq)
          rest == parseSkipParts(Tail(partsSeq), maxParts)
      IN  IF Len(part) >= 2
          THEN LET start == part[1]
                   end == part[2]
               IN  IF ~start.nan /\ ~end.nan /\ start.v > 0 /\ end.v >= start.v
                   THEN (start.v .. Min2(end.v, maxParts)) \cup rest
                   ELSE rest
          ELSE LET num == part[1]
               IN  IF ~num.nan /\ num.v > 0 /\ num.v <= maxParts
                   THEN {num.v} \cup rest
                   ELSE rest

\* Variant: a range is added up to its end, whatever the number of parts.
RECURSIVE parseSkipPartsUnclamped(_, _)
parseSkipPartsUnclamped(partsSeq, maxParts) ==
    IF partsSeq = <<>> THEN {}
    ELSE
      LET part == Head(partsSeq)
          rest == parseSkipPartsUnclamped(Tail(partsSeq), maxParts)
      IN  IF Len(part) >= 2
          THEN IF ~part[1].nan /\ ~part[2].nan /\ part[1].v > 0 /\ part[2].v >= part[1].v
               THEN (part[1].v .. part[2].v) \cup rest
               ELSE rest
          ELSE IF ~part[1].nan /\ part[1].v > 0 /\ part[1].v <= maxParts
               THEN {part[1].v} \cup rest
               ELSE rest

parseSkipInstancesUnclamped(input, maxParts) == parseSkipPartsUnclamped(input, maxParts)

parseSkipInstances(input, maxParts) == parseSkipParts(input, maxParts)

\* validateSkipInstances returns null or a message that ends with the part.
Null == [error |-> FALSE]
ErrorMessage(text, part) == [error |-> TRUE, text |-> text, part |-> part]

\* Lines 770-800: the message for one part, or null.
validateSkipPart(part, maxParts) ==
    IF Len(part) >= 2
    THEN IF Len(part) # 2 THEN ErrorMessage("Invalid range format", part)
         ELSE LET start == part[1]
                  end == part[2]
              IN  IF start.empty \/ end.empty THEN ErrorMessage("Invalid range", part)
                  ELSE IF start.nan \/ end.nan
                  THEN ErrorMessage("Invalid numbers in range", part)
                  ELSE IF start.v < 1 THEN ErrorMessage("Range start must be >= 1", part)
                  ELSE IF end.v < start.v THEN ErrorMessage("Range end must be >= start", part)
                  ELSE IF start.v > maxParts
                  THEN ErrorMessage("Range start exceeds total parts", part)
                  ELSE Null
    ELSE LET num == part[1]
         IN  IF num.nan THEN ErrorMessage("Invalid number", part)
             ELSE IF num.v < 1 THEN ErrorMessage("Instance must be >= 1", part)
             ELSE IF num.v > maxParts THEN ErrorMessage("Instance exceeds total parts", part)
             ELSE Null

\* Lines 768-805: the first part with a message decides.
RECURSIVE validateSkipParts(_, _)
validateSkipParts(partsSeq, maxParts) ==
    IF partsSeq = <<>> THEN Null
    ELSE LET r == validateSkipPart(Head(partsSeq), maxParts)
         IN  IF r.error THEN r ELSE validateSkipParts(Tail(partsSeq), maxParts)

validateSkipInstances(input, maxParts) == validateSkipParts(input, maxParts)

(***************************** grid positions *******************************)
xMultiplier(o) == IF o.columnDirection = "positive" THEN 1 ELSE -1
yMultiplier(o) == IF o.rowDirection = "positive" THEN 1 ELSE -1
totalParts(o) == o.rows * o.columns

\* Variant: the part number computed with the row count as the row stride.
gridPositionRowStride(o, row, col) ==
    [partNum |-> row * o.rows + col + 1,
     row |-> row + 1,
     col |-> col + 1,
     offsetX |-> col * o.spacingX * xMultiplier(o),
     offsetY |-> row * o.spacingY * yMultiplier(o)]

gridPosition(o, row, col) ==
    [partNum |-> row * o.columns + col + 1,
     row |-> row + 1,
     col |-> col + 1,
     offsetX |-> col * o.spacingX * xMultiplier(o),
     offsetY |-> row * o.spacingY * yMultiplier(o)]

\* The nested row / col loops: cell number c = row * columns + col, c = 0, 1, ...
RECURSIVE gridLoop(_, _, _)
gridLoop(o, skip, c) ==
    IF c >= o.rows * o.columns THEN <<>>
    ELSE
      LET row == c \div o.columns
          col == c % o.columns
          pos == gridPosition(o, row, col)
      IN  IF pos.partNum \in skip
          THEN gridLoop(o, skip, c + 1)
          ELSE <<pos>> \o gridLoop(o, skip, c + 1)

\* Variant: the skip set is ignored.
gridPositionsNoSkip(o, skip) == gridLoop(o, {}, 0)

gridPositions(o, skip) == gridLoop(o, skip, 0)

(***************************** tool segments ********************************)
NoTool == -1

\* Variant: the tool-change line is kept as the first line of its segment.
ptsStepKeepingToolLine(st, gcode, k) ==
    LET line == gcode[k]
    IN  IF isExactly(line, "M30") \/ isExactly(line, "M2") THEN st
        ELSE IF isToolChange(line)
        THEN [segments |-> IF Len(st.cur.lines) > 0
                           THEN Append(st.segments, st.cur) ELSE st.segments,
              cur |-> [toolNum |-> line.tnum, lines |-> <<k>>, isHeader |-> FALSE]]
        ELSE [st EXCEPT !.cur.lines = Append(@, k)]

\* Lines 1027-1048: one iteration of the loop of parseToolSegments.
ptsStep(st, gcode, k) ==
    LET line == gcode[k]
    IN  IF isExactly(line, "M30") \/ isExactly(line, "M2") THEN st
        ELSE IF isToolChange(line)
        THEN [segments |-> IF Len(st.cur.lines) > 0
                           THEN Append(st.segments, st.cur) ELSE st.segments,
              cur |-> [toolNum |-> line.tnum, lines |-> <<>>, isHeader |-> FALSE]]
        ELSE [st EXCEPT !.cur.lines = Append(@, k)]

RECURSIVE ptsLoop(_, _, _)
ptsLoop(st, gcode, k) ==
    IF k > Len(gcode) THEN st ELSE ptsLoop(ptsStep(st, gcode, k), gcode, k + 1)

\* A segment's lines are held as the positions of the lines in the source.
parseToolSegments(gcode) ==
    LET st == ptsLoop([segments |-> <<>>,
                       cur |-> [toolNum |-> NoTool, lines |-> <<>>, isHeader |-> TRUE]],
                      gcode, 1)
    IN  IF Len(st.cur.lines) > 0 THEN Append(st.segments, st.cur) ELSE st.segments

headerLines(segs) ==
    IF segs # <<>> /\ segs[1].isHeader THEN segs[1].lines ELSE <<>>

hasHeader(segs) == segs # <<>> /\ segs[1].isHeader

toolSegmentsOf(segs) == SelectSeq(segs, LAMBDA s : ~s.isHeader)

\* Variant: a tool is listed once per segment instead of once.
toolOrderPerSegment(tsegs, seen) == [n \in 1..Len(tsegs) |-> tsegs[n].toolNum]

\* toolOrder: the tool numbers of the tool segments in order of first occurrence.
RECURSIVE toolOrderOf(_, _)
toolOrderOf(tsegs, seen) ==
    IF tsegs = <<>> THEN <<>>
    ELSE IF Head(tsegs).toolNum \in seen THEN toolOrderOf(Tail(tsegs), seen)
    ELSE <<Head(tsegs).toolNum>> \o toolOrderOf(Tail(tsegs), seen \cup {Head(tsegs).toolNum})

\* Variant: only the first segment of the tool is taken.
allLinesForToolFirstSegment(tsegs, toolNum) ==
    IF \E n \in 1..Len(tsegs) : tsegs[n].toolNum = toolNum
    THEN tsegs[CHOOSE n \in 1..Len(tsegs) :
                 /\ tsegs[n].toolNum = toolNum
                 /\ \A m \in 1..(n - 1) : tsegs[m].toolNum # toolNum].lines
    ELSE <<>>

\* allLinesForTool: the lines of all segments of one tool, flattened.
RECURSIVE allLinesForTool(_, _)
allLinesForTool(tsegs, toolNum) ==
    IF tsegs = <<>> THEN <<>>
    ELSE (IF Head(tsegs).toolNum = toolNum THEN Head(tsegs).lines ELSE <<>>)
         \o allLinesForTool(Tail(tsegs), toolNum)

(************************* preamble / cutting / postamble *******************)
\* Variant: the phase never leaves the cutting body.
splitStepNoPostamble(st, gcode, k) ==
    LET line == gcode[k]
        p1 == IF st.phase = "preamble" /\ (isSpindleStart(line) \/ hasXY(line))
              THEN "cutting" ELSE st.phase
    IN  IF isProgramEndWord(line) THEN st
        ELSE [phase |-> p1,
              preamble |-> IF p1 = "preamble" THEN Append(st.preamble, k) ELSE st.preamble,
              cutting |-> IF p1 = "cutting" THEN Append(st.cutting, k) ELSE st.cutting,
              postamble |-> st.postamble]

\* Lines 1120-1149 and 1246-1271: one iteration of the loop over sourceLines.
splitStep(st, gcode, k) ==
    LET line == gcode[k]
        p1 == IF st.phase = "preamble" /\ (isSpindleStart(line) \/ hasXY(line))
              THEN "cutting" ELSE st.phase
        p2 == IF p1 = "cutting" /\ (includes(line, "G53") \/ isSpindleStopCommand(line))
              THEN "postamble" ELSE p1
    IN  IF isProgramEndWord(line) THEN st
        ELSE [phase |-> p2,
              preamble |-> IF p2 = "preamble" THEN Append(st.preamble, k) ELSE st.preamble,
              cutting |-> IF p2 = "cutting" THEN Append(st.cutting, k) ELSE st.cutting,
              postamble |-> IF p2 = "postamble" THEN Append(st.postamble, k) ELSE st.postamble]

RECURSIVE splitLoop(_, _, _)
splitLoop(st, gcode, idxs) ==
    IF idxs = <<>> THEN st
    ELSE splitLoop(splitStep(st, gcode, Head(idxs)), gcode, Tail(idxs))

\* sourceLines = headerSegment ? headerSegment.lines : originalGcode.split('\n')
splitPhases(gcode, segs) ==
    LET sourceLines == IF hasHeader(segs) THEN headerLines(segs)
                       ELSE [k \in 1..Len(gcode) |-> k]
    IN  splitLoop([phase |-> "preamble", preamble |-> <<>>, cutting |-> <<>>,
                   postamble |-> <<>>], gcode, sourceLines)

(***************************** the output ***********************************)
\* An entry of the output array: the emitted line, and where it comes from
\* (history only; the code pushes the line alone):
\*   role  "info" a generated comment or blank line, "toolchange" a generated
\*         tool-change line, "end" the footer, "raw" a source line pushed as
\*         it is (preamble, header, postamble), "replay" a source line pushed
\*         through the offset closure, "moved" a buffered operation comment
\*   part  the partNum of the instance being replayed (0 outside a replay)
\*   grp   the tool (sort-by-tool) or the segment number (standard) of the
\*         replay (0 where there is none)
\*   idx   the position of the source line in the source (0 if generated)
\*   m0,m1 the closure's isAbsolute when the call began and when it returned
Out(ln, role, part, grp, idx, m0, m1) ==
    [ln |-> ln, role |-> role, part |-> part, grp |-> grp, idx |-> idx, m0 |-> m0, m1 |-> m1]

Info(ln) == Out(ln, "info", 0, 0, 0, TRUE, TRUE)
Raw(gcode, k) == Out(gcode[k], "raw", 0, 0, k, TRUE, TRUE)

RawAll(gcode, idxs) == [n \in 1..Len(idxs) |-> Raw(gcode, idxs[n])]

\* Variant: an operation comment is withheld wherever it stands.
plStepWithholdingAll(st, gcode, k, skipSpindleStop, part, grp) ==
    LET line == gcode[k]
        ag == st.afterG53 \/ includes(line, "G53")
    IN  IF skipSpindleStop /\ isSpindleStopCommand(line)
        THEN [st EXCEPT !.afterG53 = ag]
        ELSE IF isOperationNameComment(line)
        THEN [st EXCEPT !.afterG53 = ag, !.pendingComment = k]
        ELSE
          LET flush == st.pendingComment # 0 /\ isOperationStart(line)
              out1 == IF flush
                      THEN Append(st.output, Out(gcode[st.pendingComment], "moved", part, grp,
                                                 st.pendingComment, st.fn.isAbsolute,
                                                 st.fn.isAbsolute))
                      ELSE st.output
              ag1 == IF flush THEN FALSE ELSE ag
              r == offsetFn(st.fn, line)
              meaningful == /\ ~startsWithParen(line) /\ ~startsWithSemi(line)
                            /\ ~isBlank(line) /\ ~includes(line, "G53")
          IN  [pendingComment |-> IF flush THEN 0 ELSE st.pendingComment,
               afterG53 |-> IF meaningful THEN FALSE ELSE ag1,
               fn |-> r.fn,
               output |-> Append(out1, Out(r.ln, "replay", part, grp, k,
                                           st.fn.isAbsolute, r.fn.isAbsolute))]

\* One iteration of processLinesWithCommentRepositioning's loop.
\* st = [pendingComment (0 is null), afterG53, fn, output]
plStep(st, gcode, k, skipSpindleStop, part, grp) ==
    LET line == gcode[k]
        ag == st.afterG53 \/ includes(line, "G53")
    IN  IF skipSpindleStop /\ isSpindleStopCommand(line)
        THEN [st EXCEPT !.afterG53 = ag]
        ELSE IF isOperationNameComment(line) /\ ag
        THEN [st EXCEPT !.afterG53 = ag, !.pendingComment = k]
        ELSE
          LET flush == st.pendingComment # 0 /\ isOperationStart(line)
              out1 == IF flush
                      THEN Append(st.output, Out(gcode[st.pendingComment], "moved", part, grp,
                                                 st.pendingComment, st.fn.isAbsolute,
                                                 st.fn.isAbsolute))
                      ELSE st.output
              ag1 == IF flush THEN FALSE ELSE ag
              r == offsetFn(st.fn, line)
              meaningful == /\ ~startsWithParen(line) /\ ~startsWithSemi(line)
                            /\ ~isBlank(line) /\ ~includes(line, "G53")
          IN  [pendingComment |-> IF flush THEN 0 ELSE st.pendingComment,
               afterG53 |-> IF meaningful THEN FALSE ELSE ag1,
               fn |-> r.fn,
               output |-> Append(out1, Out(r.ln, "replay", part, grp, k,
                                           st.fn.isAbsolute, r.fn.isAbsolute))]

RECURSIVE plLoop(_, _, _, _, _, _)
plLoop(st, gcode, idxs, skipSpindleStop, part, grp) ==
    IF idxs = <<>> THEN st
    ELSE plLoop(plStep(st, gcode, Head(idxs), skipSpindleStop, part, grp),
                gcode, Tail(idxs), skipSpindleStop, part, grp)

\* Variant: a comment still pending after the last line is pushed then.
processLinesFlushingAtEnd(gcode, idxs, applyOffsetFn, skipSpindleStop, out, part, grp) ==
    LET st == plLoop([pendingComment |-> 0, afterG53 |-> FALSE, fn |-> applyOffsetFn,
                      output |-> out], gcode, idxs, skipSpindleStop, part, grp)
    IN  [fn |-> st.fn,
         output |-> IF st.pendingComment # 0
                    THEN Append(st.output, Out(gcode[st.pendingComment], "moved", part, grp,
                                               st.pendingComment, st.fn.isAbsolute,
                                               st.fn.isAbsolute))
                    ELSE st.output]

\* Returns the closure's final state and the output array after the call.
processLinesWithCommentRepositioning(gcode, idxs, applyOffsetFn, skipSpindleStop, out, part, grp) ==
    LET st == plLoop([pendingComment |-> 0, afterG53 |-> FALSE, fn |-> applyOffsetFn,
                      output |-> out], gcode, idxs, skipSpindleStop, part, grp)
    IN  [fn |-> st.fn, output |-> st.output]

\* The standard no-tool loop (lines 1288-1294): no comment repositioning.
RECURSIVE simpleLoop(_, _, _, _, _)
simpleLoop(st, gcode, idxs, isLastPosition, part) ==
    IF idxs = <<>> THEN st
    ELSE
      LET k == Head(idxs)
          line == gcode[k]
          r == offsetFn(st.fn, line)
      IN  IF ~isLastPosition /\ isSpindleStopCommand(line)
          THEN simpleLoop(st, gcode, Tail(idxs), isLastPosition, part)
          ELSE simpleLoop([fn |-> r.fn,
                           output |-> Append(st.output,
                                             Out(r.ln, "replay", part, 0, k,
                                                 st.fn.isAbsolute, r.fn.isAbsolute))],
                          gcode, Tail(idxs), isLastPosition, part)

(***************************** the generator ********************************)
Infos(n) == [k \in 1..n |-> Info(InfoComment)]
BlankOut == <<Info(Blank)>>

NoFn == [offsetX |-> 0, offsetY |-> 0, isAbsolute |-> TRUE]

toolSegments == toolSegmentsOf(segments)
toolOrder == toolOrderOf(toolSegments, {})

\* Variant: the spindle stop is kept in every segment of the last position.
skipSpindleStopLastPartOnly(isLastPosition, isLastSegment) == ~isLastPosition

\* Line 1335: skipSpindleStop unless last part AND last tool.
skipSpindleStopStd(isLastPosition, isLastSegment) == ~(isLastPosition /\ isLastSegment)

\* Variant: the spindle stop is kept for every position.
skipSpindleStopNever(isLastPosition) == FALSE

\* Lines 1169 and 1221: skipSpindleStop is !isLastPosition.
skipSpindleStopSort(isLastPosition) == ~isLastPosition

\* Lines 1060-1097: the header comments, the skip set and the grid positions.
Begin ==
    /\ pc = "start"
    /\ LET skip == parseSkipInstances(opt.skipInstances, totalParts(opt))
       IN  /\ skipSet' = skip
           /\ output' = Infos(3) \o (IF Cardinality(skip) > 0 THEN Infos(2) ELSE <<>>)
                        \o Infos(3) \o BlankOut
           /\ positions' = gridPositions(opt, skip)
    /\ pc' = "assemble"
    /\ UNCHANGED <<outsideGen, src, opt, segments, parts3, posIndex, grpIndex, fn>>

\* Lines 1099-1155 (sortByTool, no tool segment): split and emit the preamble.
SortNoToolsSplit ==
    /\ pc = "assemble" /\ opt.sortByTool
    /\ LET segs == parseToolSegments(src)
           sp == splitPhases(src, segs)
       IN  /\ toolSegmentsOf(segs) = <<>>
           /\ segments' = segs
           /\ parts3' = sp
           /\ output' = output \o Infos(1) \o BlankOut \o RawAll(src, sp.preamble) \o BlankOut
    /\ posIndex' = 0
    /\ pc' = "sortNoTools"
    /\ UNCHANGED <<outsideGen, src, opt, skipSet, positions, grpIndex, fn>>

\* Lines 1158-1173: one iteration of the position loop.
SortNoToolsReplay ==
    /\ pc = "sortNoTools" /\ posIndex < Len(positions)
    /\ LET pos == positions[posIndex + 1]
           isLastPosition == posIndex = Len(positions) - 1
           r == processLinesWithCommentRepositioning(
                    src, parts3.cutting, createOffsetFn(pos.offsetX, pos.offsetY),
                    skipSpindleStopSort(isLastPosition), output \o Infos(2),
                    pos.partNum, 0)
       IN  /\ output' = r.output \o BlankOut
           /\ fn' = r.fn
    /\ posIndex' = posIndex + 1
    /\ UNCHANGED <<outsideGen, src, opt, pc, skipSet, positions, segments, parts3, grpIndex>>

\* Lines 1175-1178: the postamble, once.
SortNoToolsPost ==
    /\ pc = "sortNoTools" /\ posIndex = Len(positions)
    /\ output' = output \o RawAll(src, parts3.postamble)
    /\ pc' = "footer"
    /\ UNCHANGED <<outsideGen, src, opt, skipSet, positions, segments, parts3, posIndex, grpIndex, fn>>

\* Lines 1179-1195 (sortByTool, tool segments): group by tool, info comments.
SortToolsBegin ==
    /\ pc = "assemble" /\ opt.sortByTool
    /\ LET segs == parseToolSegments(src)
       IN  /\ toolSegmentsOf(segs) # <<>>
           /\ segments' = segs
    /\ output' = output \o Infos(3) \o BlankOut
    /\ grpIndex' = 0
    /\ pc' = "sortTools"
    /\ UNCHANGED <<outsideGen, src, opt, skipSet, positions, parts3, posIndex, fn>>

\* Lines 1197-1202: the next tool of toolOrder, its one tool-change line.
SortToolChange ==
    /\ pc = "sortTools" /\ grpIndex < Len(toolOrder)
    /\ LET toolNum == toolOrder[grpIndex + 1]
       IN  output' = output \o Infos(1)
                     \o <<Out(ToolLine("M6T", toolNum), "toolchange", 0, grpIndex + 1, 0, TRUE, TRUE)>>
                     \o BlankOut
    /\ grpIndex' = grpIndex + 1
    /\ posIndex' = 0
    /\ pc' = IF Len(positions) > 0 THEN "sortToolReplay"
             ELSE IF grpIndex + 1 < Len(toolOrder) THEN "sortTools" ELSE "footer"
    /\ UNCHANGED <<outsideGen, src, opt, skipSet, positions, segments, parts3, fn>>

\* Lines 1210-1225: one iteration of the position loop of the current tool.
SortToolReplay ==
    /\ pc = "sortToolReplay" /\ posIndex < Len(positions)
    /\ LET toolNum == toolOrder[grpIndex]
           pos == positions[posIndex + 1]
           isLastPosition == posIndex = Len(positions) - 1
           r == processLinesWithCommentRepositioning(
                    src, allLinesForTool(toolSegments, toolNum),
                    createOffsetFn(pos.offsetX, pos.offsetY),
                    skipSpindleStopSort(isLastPosition), output \o Infos(2),
                    pos.partNum, grpIndex)
       IN  /\ output' = r.output \o BlankOut
           /\ fn' = r.fn
           /\ pc' = IF ~isLastPosition THEN "sortToolReplay"
                    ELSE IF grpIndex < Len(toolOrder) THEN "sortTools" ELSE "footer"
    /\ posIndex' = posIndex + 1
    /\ UNCHANGED <<outsideGen, src, opt, skipSet, positions, segments, parts3, grpIndex>>

\* Lines 1229-1279 (standard, no tool segment): split and emit the preamble.
StdNoToolsSplit ==
    /\ pc = "assemble" /\ ~opt.sortByTool
    /\ LET segs == parseToolSegments(src)
           sp == splitPhases(src, segs)
       IN  /\ toolSegmentsOf(segs) = <<>>
           /\ segments' = segs
           /\ parts3' = sp
           /\ output' = output \o RawAll(src, sp.preamble) \o BlankOut
    /\ posIndex' = 0
    /\ pc' = "stdNoTools"
    /\ UNCHANGED <<outsideGen, src, opt, skipSet, positions, grpIndex, fn>>

\* Lines 1281-1296: one iteration of the position loop.
StdNoToolsReplay ==
    /\ pc = "stdNoTools" /\ posIndex < Len(positions)
    /\ LET pos == positions[posIndex + 1]
           isLastPosition == posIndex = Len(positions) - 1
           r == simpleLoop([fn |-> createOffsetFn(pos.offsetX, pos.offsetY),
                            output |-> output \o Infos(2)],
                           src, parts3.cutting, isLastPosition, pos.partNum)
       IN  /\ output' = r.output \o BlankOut
           /\ fn' = r.fn
    /\ posIndex' = posIndex + 1
    /\ UNCHANGED <<outsideGen, src, opt, pc, skipSet, positions, segments, parts3, grpIndex>>

\* Lines 1298-1300: the postamble, once.
StdNoToolsPost ==
    /\ pc = "stdNoTools" /\ posIndex = Len(positions)
    /\ output' = output \o RawAll(src, parts3.postamble)
    /\ pc' = "footer"
    /\ UNCHANGED <<outsideGen, src, opt, skipSet, positions, segments, parts3, posIndex, grpIndex, fn>>

\* Lines 1301-1313 (standard, tool segments): info comments, the header once.
StdToolsBegin ==
    /\ pc = "assemble" /\ ~opt.sortByTool
    /\ LET segs == parseToolSegments(src)
       IN  /\ toolSegmentsOf(segs) # <<>>
           /\ segments' = segs
           /\ output' = output \o Infos(2) \o BlankOut
                        \o (IF hasHeader(segs) /\ Len(headerLines(segs)) > 0
                            THEN RawAll(src, headerLines(segs)) \o BlankOut ELSE <<>>)
    /\ posIndex' = 0
    /\ grpIndex' = 0
    /\ pc' = IF Len(positions) > 0 THEN "stdPart" ELSE "footer"
    /\ UNCHANGED <<outsideGen, src, opt, skipSet, positions, parts3, fn>>

\* Lines 1316-1322: the next position, its comments.
StdPartBegin ==
    /\ pc = "stdPart"
    /\ output' = output \o Infos(2) \o BlankOut
    /\ grpIndex' = 0
    /\ pc' = "stdSeg"
    /\ UNCHANGED <<outsideGen, src, opt, skipSet, positions, segments, parts3, posIndex, fn>>

\* Lines 1324-1339: one iteration of the segment loop of the current position.
StdSegReplay ==
    /\ pc = "stdSeg" /\ grpIndex < Len(toolSegments)
    /\ LET pos == positions[posIndex + 1]
           isLastPosition == posIndex = Len(positions) - 1
           seg == toolSegments[grpIndex + 1]
           isLastSegment == grpIndex = Len(toolSegments) - 1
           tc == Out(ToolLine("TM6", seg.toolNum), "toolchange", pos.partNum, grpIndex + 1,
                     0, TRUE, TRUE)
           r == processLinesWithCommentRepositioning(
                    src, seg.lines, createOffsetFn(pos.offsetX, pos.offsetY),
                    skipSpindleStopStd(isLastPosition, isLastSegment), Append(output, tc),
                    pos.partNum, grpIndex + 1)
       IN  /\ output' = r.output \o BlankOut
           /\ fn' = r.fn
           /\ grpIndex' = grpIndex + 1
           /\ posIndex' = IF isLastSegment THEN posIndex + 1 ELSE posIndex
           /\ pc' = IF ~isLastSegment THEN "stdSeg"
                    ELSE IF isLastPosition THEN "footer" ELSE "stdPart"
    /\ UNCHANGED <<outsideGen, src, opt, skipSet, positions, segments, parts3>>

\* Lines 1344-1346: the program end, and the function returns.
Footer ==
    /\ pc = "footer"
    /\ output' = Append(output, Out(EndLine, "end", 0, 0, 0, TRUE, TRUE))
    /\ pc' = "done"
    /\ UNCHANGED <<outsideGen, src, opt, skipSet, positions, segments, parts3, posIndex, grpIndex, fn>>

Next ==
    \/ Begin
    \/ SortNoToolsSplit
    \/ SortNoToolsReplay
    \/ SortNoToolsPost
    \/ SortToolsBegin
    \/ SortToolChange
    \/ SortToolReplay
    \/ StdNoToolsSplit
    \/ StdNoToolsReplay
    \/ StdNoToolsPost
    \/ StdToolsBegin
    \/ StdPartBegin
    \/ StdSegReplay
    \/ Footer

(************************** analyzeGCodeBounds ******************************)
\* A line as analyzeGCodeBounds sees it: kind and words as above, and for
\* each of the letters X, Y, Z, I, J the numeral of the first match of its
\* pattern (<<>> where match() returns null).  The numerals of the programs
\* explored are whole numbers, which parseFloat reads exactly.
BLn(kind, words, x, y, z, i, j) ==
    [kind |-> kind, words |-> words, x |-> x, y |-> y, z |-> z, i |-> i, j |-> j]

\* Infinity: above every coordinate the programs explored reach.
Infinity == 1000000

Max2(a, b) == IF a >= b THEN a ELSE b

sgn(v) == IF v > 0 THEN 1 ELSE IF v < 0 THEN 0 - 1 ELSE 0

\* Lines 43-51: the locals before the loop.
initialBounds ==
    [min |-> [x |-> Infinity, y |-> Infinity, z |-> Infinity],
     max |-> [x |-> 0 - Infinity, y |-> 0 - Infinity, z |-> 0 - Infinity]]

initialAnalysis ==
    [current |-> [x |-> 0, y |-> 0, z |-> 0],
     modal |-> [isAbsolute |-> TRUE, isArcAbsolute |-> FALSE, motionMode |-> 0],
     bounds |-> initialBounds]

\* Line 58: the lines the loop skips as comments.
isBoundsComment(line) == line.kind \in {"paren", "semi", "pct"}

\* Lines 62-65: the arc-centre mode and the positioning mode.
positioningAfter(m, line) ==
    LET c1 == IF includes(line, "G90.1") THEN TRUE ELSE m.isArcAbsolute
        c2 == IF includes(line, "G91.1") THEN FALSE ELSE c1
        a1 == IF includes(line, "G90") /\ ~includes(line, "G90.1") THEN TRUE ELSE m.isAbsolute
        a2 == IF includes(line, "G91") /\ ~includes(line, "G91.1") THEN FALSE ELSE a1
    IN  [m EXCEPT !.isArcAbsolute = c2, !.isAbsolute = a2]

\* Lines 70-73: the four tests run in this order, so the last that matches
\* decides.
motionAfter(m, line) ==
    LET m0 == IF line.words \cap {"G0", "G00"} # {} THEN 0 ELSE m.motionMode
        m1 == IF line.words \cap {"G1", "G01"} # {} THEN 1 ELSE m0
        m2 == IF line.words \cap {"G2", "G02"} # {} THEN 2 ELSE m1
        m3 == IF line.words \cap {"G3", "G03"} # {} THEN 3 ELSE m2
    IN  [m EXCEPT !.motionMode = m3]

\* Lines 85-101: the end position of the line.
endAxis(match, isAbsolute, cur) ==
    IF match = <<>> THEN cur
    ELSE IF isAbsolute THEN match[1] ELSE cur + match[1]

endPosition(line, m, cur) ==
    [x |-> endAxis(line.x, m.isAbsolute, cur.x),
     y |-> endAxis(line.y, m.isAbsolute, cur.y),
     z |-> endAxis(line.z, m.isAbsolute, cur.z)]

\* Math.atan2(dy, dx), held as the direction it stands for: atan2(0, 0) is 0,
\* the direction of (1, 0).  The angle of a direction lies in (-pi, pi]; the
\* comparisons below are those of the angles normalize() brings to [0, 2pi).
atan2(dy, dx) ==
    IF dx = 0 /\ dy = 0 THEN [dx |-> 1, dy |-> 0] ELSE [dx |-> dx, dy |-> dy]

\* The angle of the direction is in [0, pi).
upperHalf(a) == a.dy > 0 \/ (a.dy = 0 /\ a.dx > 0)

\* normalize(a) < normalize(b), and normalize(a) <= normalize(b).
angleLT(a, b) ==
    IF upperHalf(a) # upperHalf(b) THEN upperHalf(a)
    ELSE a.dx * b.dy - a.dy * b.dx > 0

angleLE(a, b) == ~angleLT(b, a)

\* radius * Math.cos(a) and radius * Math.sin(a), in exact arithmetic, for a
\* direction along an axis or a direction vector of length radius.
rcos(radius, a) ==
    IF a.dy = 0 THEN radius * sgn(a.dx) ELSE IF a.dx = 0 THEN 0 ELSE a.dx

rsin(radius, a) ==
    IF a.dx = 0 THEN radius * sgn(a.dy) ELSE IF a.dy = 0 THEN 0 ELSE a.dy

\* Variant: no wrap-around, the angle lies between the two ends.
isAngleInArcNoWrap(a, start, end, isClockwise) ==
    IF isClockwise
    THEN angleLE(a, start) /\ angleLE(end, a)
    ELSE angleLE(start, a) /\ angleLE(a, end)

\* Lines 184-199: isAngleInArc.
isAngleInArc(a, start, end, isClockwise) ==
    IF isClockwise
    THEN IF angleLE(end, start)
         THEN angleLE(a, start) /\ angleLE(end, a)
         ELSE angleLE(a, start) \/ angleLE(end, a)
    ELSE IF angleLE(start, end)
         THEN angleLE(start, a) /\ angleLE(a, end)
         ELSE angleLE(start, a) \/ angleLE(a, end)

\* Lines 173-226.
calculateArcBounds(centerX, centerY, radius, startAngle, endAngle, isClockwise) ==
    LET startX == centerX + rcos(radius, startAngle)
        startY == centerY + rsin(radius, startAngle)
        endX == centerX + rcos(radius, endAngle)
        endY == centerY + rsin(radius, endAngle)
        in(a) == isAngleInArc(a, startAngle, endAngle, isClockwise)
    IN  [minX |-> IF in(atan2(0, 0 - 1)) THEN centerX - radius ELSE Min2(startX, endX),
         maxX |-> IF in(atan2(0, 1)) THEN centerX + radius ELSE Max2(startX, endX),
         minY |-> IF in(atan2(0 - 1, 0)) THEN centerY - radius ELSE Min2(startY, endY),
         maxY |-> IF in(atan2(1, 0)) THEN centerY + radius ELSE Max2(startY, endY)]

\* Lines 108-109: the I or J word of the line, 0 where the line has none.
offsetWord(match) == IF match = <<>> THEN 0 ELSE match[1]

\* Lines 104-128: whether the line is an arc, and the arc's centre, squared
\* radius, angles and sense, for a centre already computed.
arcAbout(cur, m, end, line, centerX, centerY) ==
    [isArc |-> m.motionMode \in {2, 3} /\ (line.i # <<>> \/ line.j # <<>>),
     centerX |-> centerX, centerY |-> centerY,
     radius2 |-> (cur.x - centerX) * (cur.x - centerX)
                 + (cur.y - centerY) * (cur.y - centerY),
     startAngle |-> atan2(cur.y - centerY, cur.x - centerX),
     endAngle |-> atan2(end.y - centerY, end.x - centerX),
     isG2 |-> m.motionMode = 2]

\* Variant: I and J are always offsets from the start of the arc.
arcInIncremental(st, line, m) ==
    arcAbout(st.current, m, endPosition(line, m, st.current), line,
             st.current.x + offsetWord(line.i), st.current.y + offsetWord(line.j))

\* Lines 111-119: the centre, absolute or relative to the start of the arc.
arcIn(st, line, m) ==
    arcAbout(st.current, m, endPosition(line, m, st.current), line,
             IF m.isArcAbsolute THEN offsetWord(line.i)
             ELSE st.current.x + offsetWord(line.i),
             IF m.isArcAbsolute THEN offsetWord(line.j)
             ELSE st.current.y + offsetWord(line.j))

arcOf(st, line) == arcIn(st, line, motionAfter(positioningAfter(st.modal, line), line))

\* Math.sqrt on a perfect square.
sqrt(n) == CHOOSE r \in 0..n : r * r = n

\* Line 147: motionMode >= 1.
isCuttingMode(motionMode) == motionMode >= 1

\* Variant: the position before the move is put into the box as well.
extendAxisWithStart(lo, hi, present, v, from) ==
    IF present THEN [lo |-> Min2(Min2(lo, v), from), hi |-> Max2(Max2(hi, v), from)]
    ELSE [lo |-> lo, hi |-> hi]

\* Lines 148-159: one axis of the box after a cutting move that names it.
extendAxis(lo, hi, present, v, from) ==
    IF present THEN [lo |-> Min2(lo, v), hi |-> Max2(hi, v)]
    ELSE [lo |-> lo, hi |-> hi]

\* Line 132: the call of calculateArcBounds, with the radius of line 122.
arcBounds(arc) ==
    calculateArcBounds(arc.centerX, arc.centerY, sqrt(arc.radius2),
                       arc.startAngle, arc.endAngle, arc.isG2)

\* Lines 134-137: the box of the arc goes into the bounds.
withArc(b, ab) ==
    [min |-> [b.min EXCEPT !.x = Min2(@, ab.minX), !.y = Min2(@, ab.minY)],
     max |-> [b.max EXCEPT !.x = Max2(@, ab.maxX), !.y = Max2(@, ab.maxY)]]

boxOf(ex, ey, ez) ==
    [min |-> [x |-> ex.lo, y |-> ey.lo, z |-> ez.lo],
     max |-> [x |-> ex.hi, y |-> ey.hi, z |-> ez.hi]]

\* Lines 147-160: the end point of a cutting move goes into the bounds,
\* axis by axis.
extendBox(b1, cut, line, end, cur) ==
    boxOf(extendAxis(b1.min.x, b1.max.x, cut /\ line.x # <<>>, end.x, cur.x),
          extendAxis(b1.min.y, b1.max.y, cut /\ line.y # <<>>, end.y, cur.y),
          extendAxis(b1.min.z, b1.max.z, cut /\ line.z # <<>>, end.z, cur.z))

\* Lines 104-160: a line that is not skipped, with its modes, end point and
\* arc.
moveWith(st, line, m, end, arc) ==
    [current |-> end,
     modal |-> m,
     bounds |-> extendBox(IF arc.isArc THEN withArc(st.bounds, arcBounds(arc))
                          ELSE st.bounds,
                          isCuttingMode(m.motionMode), line, end, st.current)]

moveIn(st, line, m) ==
    moveWith(st, line, m, endPosition(line, m, st.current), arcIn(st, line, m))

\* Variant: a G53 line moves the tracked position like any other line.
analyzeLineMovingOnG53(st, line) ==
    IF isBoundsComment(line) THEN st
    ELSE moveIn(st, line, motionAfter(positioningAfter(st.modal, line), line))

\* Lines 56-160: one iteration of the loop over the lines.
analyzeLine(st, line) ==
    IF isBoundsComment(line) THEN st
    ELSE IF includes(line, "G53")
    THEN [st EXCEPT !.modal = positioningAfter(st.modal, line)]
    ELSE moveIn(st, line, motionAfter(positioningAfter(st.modal, line), line))

\* Lines 163-168: a bound still infinite becomes 0.
collapse(b) ==
    [min |-> [a \in {"x", "y", "z"} |-> IF b.min[a] = Infinity THEN 0 ELSE b.min[a]],
     max |-> [a \in {"x", "y", "z"} |-> IF b.max[a] = 0 - Infinity THEN 0 ELSE b.max[a]]]

\* One iteration of the loop.
AnalyzeLine ==
    /\ ~returned /\ lineNo < Len(gcodeContent)
    /\ \E st \in {analyzeLine([current |-> current, modal |-> modal, bounds |-> bounds],
                                gcodeContent[lineNo + 1])} :
           /\ current' = st.current
           /\ modal' = st.modal
           /\ bounds' = st.bounds
    /\ lineNo' = lineNo + 1
    /\ UNCHANGED <<outsideBounds, gcodeContent, returned>>

\* The loop is over: the infinite bounds collapse and the function returns.
AnalyzeReturn ==
    /\ ~returned /\ lineNo = Len(gcodeContent)
    /\ bounds' = collapse(bounds)
    /\ returned' = TRUE
    /\ UNCHANGED <<outsideBounds, gcodeContent, lineNo, current, modal>>

NextBounds ==
    \/ AnalyzeLine
    \/ AnalyzeReturn

\* The arcs the exact arithmetic above covers: the radius is a whole number
\* and the end point lies along an axis from the centre or on the circle.
arcInDomain(st, line) ==
    \A arc \in {arcOf(st, line)} :
      (~isBoundsComment(line) /\ ~includes(line, "G53") /\ arc.isArc) =>
        /\ \E r \in 0..arc.radius2 : r * r = arc.radius2
        /\ \/ arc.endAngle.dx = 0
           \/ arc.endAngle.dy = 0
           \/ arc.endAngle.dx * arc.endAngle.dx + arc.endAngle.dy * arc.endAngle.dy
                = arc.radius2

RECURSIVE arcsInDomain(_, _)
arcsInDomain(st, lines) ==
    IF lines = <<>> THEN TRUE
    ELSE /\ arcInDomain(st, Head(lines))
         /\ \A after \in {analyzeLine(st, Head(lines))} : arcsInDomain(after, Tail(lines))

\* analyzeGCodeBounds is not running.
BoundsIdle ==
    /\ gcodeContent = <<>>
    /\ lineNo = 0
    /\ current = initialAnalysis.current
    /\ modal = initialAnalysis.modal
    /\ bounds = initialBounds
    /\ returned = FALSE

(******************** the offset closure, line after line ********************)
\* Lines 58-73: the modes analyzeGCodeBounds holds after a line.
modalAfter(m, line) ==
    IF isBoundsComment(line) THEN m
    ELSE IF includes(line, "G53") THEN positioningAfter(m, line)
    ELSE motionAfter(positioningAfter(m, line), line)

\* Lines 893-926: one call of the closure on the next line; the modes of
\* analyzeGCodeBounds after the same line are kept beside it.
CallOffsetFn ==
    /\ fnAt < Len(fnLines)
    /\ \E r \in {offsetFn(fnClosure, fnLines[fnAt + 1])} :
           /\ fnClosure' = r.fn
           /\ fnOut' = Append(fnOut, r.ln)
    /\ fnModal' = modalAfter(fnModal, fnLines[fnAt + 1])
    /\ fnAt' = fnAt + 1
    /\ UNCHANGED <<outsideClosure, fnLines>>

NextClosure == CallOffsetFn

\* No closure is being called.
ClosureIdle ==
    /\ fnLines = <<>>
    /\ fnAt = 0
    /\ fnClosure = NoFn
    /\ fnOut = <<>>
    /\ fnModal = initialAnalysis.modal

(********************* calculateArcBounds, called alone *********************)
\* The directions from a centre to the twelve whole-numbered points of the
\* circle of radius 5, in the order of their angles from 0 upwards; place n
\* of the ring (counted from 0) is Ring[n + 1].
Ring ==
    <<[dx |-> 5, dy |-> 0], [dx |-> 4, dy |-> 3], [dx |-> 3, dy |-> 4],
      [dx |-> 0, dy |-> 5], [dx |-> 0 - 3, dy |-> 4], [dx |-> 0 - 4, dy |-> 3],
      [dx |-> 0 - 5, dy |-> 0], [dx |-> 0 - 4, dy |-> 0 - 3], [dx |-> 0 - 3, dy |-> 0 - 4],
      [dx |-> 0, dy |-> 0 - 5], [dx |-> 3, dy |-> 0 - 4], [dx |-> 4, dy |-> 0 - 3]>>

ArcRadius == Ring[1].dx
RingSize == Len(Ring)

\* Math.atan2 of the ring's direction at place n.
RingAngle(n) == atan2(Ring[n + 1].dy, Ring[n + 1].dx)

NoArcCall == [called |-> FALSE]
NoArcBox == [minX |-> 0, maxX |-> 0, minY |-> 0, maxY |-> 0]

\* The call of line 132 with the arguments held in arcCall.
CallArcBounds ==
    /\ arcCall.called /\ ~arcCall.returned
    /\ arcBox' = calculateArcBounds(arcCall.centerX, arcCall.centerY, arcCall.radius,
                                    RingAngle(arcCall.start), RingAngle(arcCall.end),
                                    arcCall.isClockwise)
    /\ arcCall' = [arcCall EXCEPT !.returned = TRUE]
    /\ UNCHANGED outsideArc

NextArc == CallArcBounds

ArcIdle == arcCall = NoArcCall /\ arcBox = NoArcBox

(*************************** the dialog *************************************)
\* Lengths are in units of 1/100 mm; the gap fields hold tenths of the display
\* unit (step="0.1"), an inch being 25.4 mm (line 725).
INCH_TO_MM == 254

\* Lines 733: convertToMetric on a gap field.
convertToMetric(d, gap) == IF d.isImperial THEN gap * INCH_TO_MM ELSE gap * 10

\* parseInt(value) || 1 (lines 817-818): 0 reads as 1.
orOne(v) == IF v = 0 THEN 1 ELSE v

NoCall == [called |-> FALSE]

\* Variant: the width of the grid is not compared with the machine limit.
exceedsLimitsHeightOnly(d, gridWidthMm, gridHeightMm) ==
    gridHeightMm > d.machineLimitsY

\* Line 871.
exceedsLimits(d, gridWidthMm, gridHeightMm) ==
    gridWidthMm > d.machineLimitsX \/ gridHeightMm > d.machineLimitsY

\* Lines 816-885: what updatePreview computes and displays.
updatePreview(d, f) ==
    LET rows == orOne(f.rows)
        columns == orOne(f.columns)
        gapXMm == convertToMetric(d, f.gapX)
        gapYMm == convertToMetric(d, f.gapY)
        total == rows * columns
        skipError == validateSkipInstances(f.skipInstances, total)
        skip == IF skipError.error THEN {} ELSE parseSkipInstances(f.skipInstances, total)
        gridWidthMm == columns * d.partWidth + (columns - 1) * gapXMm
        gridHeightMm == rows * d.partHeight + (rows - 1) * gapYMm
    IN  [totalParts |-> total,
         skipError |-> skipError,
         skipSet |-> skip,
         gridWidthMm |-> gridWidthMm,
         gridHeightMm |-> gridHeightMm,
         validationMessage |->
           IF skipError.error THEN "none"
           ELSE IF exceedsLimits(d, gridWidthMm, gridHeightMm) THEN "limits"
           ELSE IF gapXMm < 0 \/ gapYMm < 0 THEN "negative gap"
           ELSE "none",
         generateDisabled |->
           IF skipError.error THEN TRUE
           ELSE exceedsLimits(d, gridWidthMm, gridHeightMm)]

\* The values the input fields take.
GapXValues == {0 - 10, 0, 60}
GapYValues == {0, 60}
SkipStarts == {Num(0), Num(1), Num(2), Num(MaxSkipNum), NaN, EmptyField}
SkipEnds == {Num(1), Num(2), Num(MaxSkipNum), NumJunk(2), EmptyField}
SkipParts ==
    {<<t>> : t \in {Num(n) : n \in 0..MaxSkipNum} \cup {NaN, NumJunk(2)}}
      \cup {<<t, u>> : t \in SkipStarts, u \in SkipEnds}
      \cup {<<Num(1), Num(2), Num(3)>>}
SkipValues ==
    {<<>>} \cup {<<p>> : p \in SkipParts}
      \cup {<<p, q>> : p \in {<<Num(1)>>, <<Num(1), Num(2)>>, <<Num(2), Num(MaxSkipNum)>>},
                       q \in {<<Num(3)>>, <<Num(2), Num(1)>>}}

\* Lines 1350-1356: an input event on the rows field.
InputRows ==
    /\ dialog.open
    /\ \E v \in 0..MaxRows : fields' = [fields EXCEPT !.rows = v]
    /\ preview' = updatePreview(dialog, fields')
    /\ genCall' = NoCall
    /\ UNCHANGED <<outsideDialog, dialog>>

InputColumns ==
    /\ dialog.open
    /\ \E v \in 0..MaxCols : fields' = [fields EXCEPT !.columns = v]
    /\ preview' = updatePreview(dialog, fields')
    /\ genCall' = NoCall
    /\ UNCHANGED <<outsideDialog, dialog>>

InputGapX ==
    /\ dialog.open
    /\ \E v \in GapXValues : fields' = [fields EXCEPT !.gapX = v]
    /\ preview' = updatePreview(dialog, fields')
    /\ genCall' = NoCall
    /\ UNCHANGED <<outsideDialog, dialog>>

InputGapY ==
    /\ dialog.open
    /\ \E v \in GapYValues : fields' = [fields EXCEPT !.gapY = v]
    /\ preview' = updatePreview(dialog, fields')
    /\ genCall' = NoCall
    /\ UNCHANGED <<outsideDialog, dialog>>

InputSkipInstances ==
    /\ dialog.open
    /\ \E v \in SkipValues : fields' = [fields EXCEPT !.skipInstances = v]
    /\ preview' = updatePreview(dialog, fields')
    /\ genCall' = NoCall
    /\ UNCHANGED <<outsideDialog, dialog>>

\* Lines 1350-1367: a change event on rows or columns runs updatePreview, then
\* the second listener, which clears the skip field and runs updatePreview.
ChangeRowsOrColumns ==
    /\ dialog.open
    /\ fields' = [fields EXCEPT !.skipInstances = <<>>]
    /\ preview' = updatePreview(dialog, fields')
    /\ genCall' = NoCall
    /\ UNCHANGED <<outsideDialog, dialog>>

\* Lines 1400-1408: a click on an option of a direction toggle.
ClickDirection ==
    /\ dialog.open
    /\ \E t \in {"rowDirection", "columnDirection"}, v \in {"positive", "negative"} :
         fields' = [fields EXCEPT ![t] = v]
    /\ preview' = updatePreview(dialog, fields')
    /\ genCall' = NoCall
    /\ UNCHANGED <<outsideDialog, dialog>>

\* Lines 1422-1473: the Generate button (line 718) submits the form; a disabled
\* button takes no click.  The handler reads the fields with parseInt alone.
Submit ==
    /\ dialog.open
    /\ ~preview.generateDisabled
    /\ genCall' = [called |-> TRUE,
                   options |->
                     [rows |-> fields.rows, columns |-> fields.columns,
                      rowDirection |-> fields.rowDirection,
                      columnDirection |-> fields.columnDirection,
                      spacingX |-> dialog.partWidth + convertToMetric(dialog, fields.gapX),
                      spacingY |-> dialog.partHeight + convertToMetric(dialog, fields.gapY),
                      sortByTool |-> fields.sortByTool,
                      skipInstances |-> fields.skipInstances]]
    /\ UNCHANGED <<outsideDialog, dialog, fields, preview>>

NextDialog ==
    \/ InputRows
    \/ InputColumns
    \/ InputGapX
    \/ InputGapY
    \/ InputSkipInstances
    \/ ChangeRowsOrColumns
    \/ ClickDirection
    \/ Submit

\* The dialog is not open.
DialogIdle ==
    /\ dialog = [open |-> FALSE]
    /\ fields = [rows |-> 1]
    /\ preview = [generateDisabled |-> TRUE]
    /\ genCall = NoCall

\* No job is loaded.
JobIdle ==
    /\ server = [jobLoaded |-> [loaded |-> FALSE]]
    /\ dialogArgs = [open |-> FALSE]
    /\ loadTemp = [sent |-> FALSE]

(********************* loading and re-replicating ***************************)
\* A file name is a sequence of characters.  A program text is held as the
\* file it stems from and the number of times it has been replicated.
NoName == <<>>

Original(name) == [file |-> name, replications |-> 0]
Replicated(content) == [content EXCEPT !.replications = @ + 1]

\* Line 730: name.replace(/'/g, "\\'"), the text put between the quotes.
RECURSIVE escapeQuotes(_)
escapeQuotes(name) ==
    IF name = <<>> THEN <<>>
    ELSE (IF Head(name) = "'" THEN <<"\\", "'">> ELSE <<Head(name)>>)
           \o escapeQuotes(Tail(name))

\* The value of the single-quoted string literal with that text, as the
\* script of the dialog reads it: a backslash takes the character after it
\* (none of the characters used here forms an escape sequence), and a quote
\* without backslash, or a backslash at the end, leaves no string literal.
Broken == <<"SyntaxError">>

RECURSIVE literalValue(_)
literalValue(text) ==
    IF text = <<>> THEN <<>>
    ELSE IF Head(text) = "\\"
    THEN IF Len(text) = 1 THEN Broken
         ELSE LET rest == literalValue(Tail(Tail(text)))
              IN  IF rest = Broken THEN Broken ELSE <<text[2]>> \o rest
    ELSE IF Head(text) = "'" THEN Broken
    ELSE LET rest == literalValue(Tail(text))
         IN  IF rest = Broken THEN Broken ELSE <<Head(text)>> \o rest

\* Line 730: const originalFilename = '...'.
embeddedFilename(originalSourceFile) == literalValue(escapeQuotes(originalSourceFile))

\* Lines 809-814: getOutputFilename, the name with an _RxC.nc ending.
getOutputFilename(originalFilename) == originalFilename \o <<"_RxC.nc">>

\* The replications explored.
MaxReplications == 2

\* The host application loads a G-code file: the job carries its name and no
\* sourceFile, the cache its text.
LoadFile(name) ==
    /\ ~dialogArgs.open
    /\ server' = [jobLoaded |-> [loaded |-> TRUE, filename |-> name, sourceFile |-> NoName],
                  cache |-> Original(name)]
    /\ UNCHANGED <<outsideJob, dialogArgs, loadTemp>>

\* Lines 231-319: the tool menu callback, with a job loaded.
ToolClicked ==
    /\ ~dialogArgs.open
    /\ server.jobLoaded.loaded
    /\ LET jobLoaded == server.jobLoaded
           originalSourceFile == IF jobLoaded.sourceFile # NoName THEN jobLoaded.sourceFile
                                 ELSE jobLoaded.filename
       IN  dialogArgs' = [open |-> TRUE,
                          filename |-> jobLoaded.filename,
                          originalSourceFile |-> originalSourceFile,
                          gcodeContent |-> server.cache,
                          originalFilename |-> embeddedFilename(originalSourceFile)]
    /\ UNCHANGED <<outsideJob, server, loadTemp>>

\* Lines 1462-1490: the submit handler generates from originalGcode and posts
\* the result to load-temp; the host application makes it the loaded job, with
\* the sourceFile of the request, and the dialog closes.
SubmitLoadTemp ==
    /\ dialogArgs.open
    /\ dialogArgs.originalFilename # Broken
    /\ dialogArgs.gcodeContent.replications < MaxReplications
    /\ LET request == [sent |-> TRUE,
                       content |-> Replicated(dialogArgs.gcodeContent),
                       filename |-> getOutputFilename(dialogArgs.originalFilename),
                       sourceFile |-> dialogArgs.originalFilename]
       IN  /\ loadTemp' = request
           /\ server' = [jobLoaded |-> [loaded |-> TRUE, filename |-> request.filename,
                                        sourceFile |-> request.sourceFile],
                         cache |-> request.content]
    /\ dialogArgs' = [open |-> FALSE]
    /\ UNCHANGED outsideJob

\* The dialog is closable.
CloseDialog ==
    /\ dialogArgs.open
    /\ dialogArgs' = [open |-> FALSE]
    /\ UNCHANGED <<outsideJob, server, loadTemp>>

(***************************** initial states *******************************)
\* Source lines of the programs explored.  Values are in units of 1/10000:
\* G1 X1.0 Y2.0004, and a modal move X0.5.
MoveXY == Code({"G1"}, <<10000>>, <<20004>>)
MoveX == Code({}, <<5000>>, <<>>)
G90Line == Code({"G90"}, <<>>, <<>>)
G91Line == Code({"G91"}, <<>>, <<>>)
G53Line == Code({"G53", "G0"}, <<>>, <<>>)
M3Line == Code({"M3"}, <<>>, <<>>)
M5Line == Code({"M5"}, <<>>, <<>>)
M30Line == Code({"M30"}, <<>>, <<>>)
T1Line == ToolLine("TM6", 1)
T2Line == ToolLine("M6T", 2)

\* The lines of the programs explored for the assembly, and for the
\* positioning mode.
AssemblyLines == {MoveXY, G53Line, M5Line, M30Line, EndLine, T1Line, T2Line}
ModeLines == {MoveXY, MoveX, G90Line, G91Line, G53Line, M3Line, T1Line}

Programs(S) == UNION {[1..k -> S] : k \in 1..MaxLines}

\* Centre-to-centre spacings 25.0 and 30.0003 (partWidth + gap, lines 1439-1440).
SpacingX == 250000
SpacingY == 300003

Options(rows, columns, rowDirection, columnDirection, sortByTool, skipInstances) ==
    [rows |-> rows, columns |-> columns, rowDirection |-> rowDirection,
     columnDirection |-> columnDirection, spacingX |-> SpacingX, spacingY |-> SpacingY,
     sortByTool |-> sortByTool, skipInstances |-> skipInstances]

\* Grids of one or two parts, with nothing skipped or part 1 skipped.
SmallGrids ==
    {Options(g[1], g[2], "negative", "positive", sbt, sk) :
        g \in {<<1, 1>>, <<1, 2>>, <<2, 1>>},
        sbt \in BOOLEAN,
        sk \in {<<>>, <<(<<Num(1)>>)>>}}

InitWith(progs, options) ==
    /\ src \in progs
    /\ opt \in options
    /\ pc = "start"
    /\ skipSet = {}
    /\ positions = <<>>
    /\ segments = <<>>
    /\ parts3 = [phase |-> "preamble", preamble |-> <<>>, cutting |-> <<>>, postamble |-> <<>>]
    /\ output = <<>>
    /\ posIndex = 0
    /\ grpIndex = 0
    /\ fn = NoFn
    /\ BoundsIdle
    /\ DialogIdle
    /\ JobIdle
    /\ ClosureIdle
    /\ ArcIdle

\* Two longer programs: a tool change without lines, then tool 2, then tool
\* 1; and tool 1 in two segments around a segment of tool 2.
\*   T1 M6 / M6 T2 / G1 X1.0 Y2.0004 / T1 M6 / G1 X1.0 Y2.0004
\*   T1 M6 / G1 X1.0 Y2.0004 / M6 T2 / G1 X1.0 Y2.0004 / T1 M6 / M5
LongPrograms ==
    {<<T1Line, T2Line, MoveXY, T1Line, MoveXY>>,
     <<T1Line, MoveXY, T2Line, MoveXY, T1Line, M5Line>>}

Init == InitWith(Programs(AssemblyLines) \cup LongPrograms, SmallGrids)

Spec == Init /\ [][Next]_vars

InitMode == InitWith(Programs(ModeLines), SmallGrids)

\* The lines of the programs explored for the operation comments:
\*   (Pocket1), G53 G0, M3, M5, G1 X1.0 Y2.0004, T1 M6.
CommentLines == {OpComment, G53Line, M3Line, M5Line, MoveXY, T1Line}

\* Two longer programs: one and two operation comments between a retract and
\* the start of the next operation.
\*   T1 M6 / G53 G0 / (Pocket1) / M3 / G1 X1.0 Y2.0004
\*   T1 M6 / G53 G0 / (Pocket1) / (Pocket2) / M3
LongCommentPrograms ==
    {<<T1Line, G53Line, OpComment, M3Line, MoveXY>>,
     <<T1Line, G53Line, OpComment, OpComment, M3Line>>}

InitComment == InitWith(Programs(CommentLines) \cup LongCommentPrograms, SmallGrids)

SpecComment == InitComment /\ [][Next]_vars

\* The lines of the programs explored for the spindle, and two longer
\* programs that stop the spindle before the second tool is fetched:
\*   T1 M6 / M3 / M5 / M6 T2 / G1 X1.0 Y2.0004
\*   T1 M6 / M3 / G1 X1.0 Y2.0004 / M5 / M6 T2 / M3
SpindleLines == {M3Line, M5Line, MoveXY, T1Line, T2Line}

LongSpindlePrograms ==
    {<<T1Line, M3Line, M5Line, T2Line, MoveXY>>,
     <<T1Line, M3Line, MoveXY, M5Line, T2Line, M3Line>>}

InitSpindle == InitWith(Programs(SpindleLines) \cup LongSpindlePrograms, SmallGrids)

SpecSpindle == InitSpindle /\ [][Next]_vars

SpecMode == InitMode /\ [][Next]_vars

\* Skip specifications of at most two parts: any single number, non-number or
\* range first, then possibly a single number.
SkipSingles == {<<Num(n)>> : n \in 0..MaxSkipNum} \cup {<<NaN>>}
SkipRanges == {<<Num(a), Num(b)>> : a, b \in 0..MaxSkipNum}
SkipInputs ==
    {<<>>} \cup {<<p>> : p \in SkipSingles \cup SkipRanges}
           \cup {<<p, q>> : p \in SkipSingles \cup SkipRanges, q \in SkipSingles}

GridOptions ==
    {Options(r, c, rd, cd, sbt, sk) :
        r \in 1..MaxRows, c \in 1..MaxCols,
        rd \in {"positive", "negative"}, cd \in {"positive", "negative"},
        sbt \in BOOLEAN, sk \in SkipInputs}

GridPrograms == {<<M3Line, MoveXY, M5Line>>, <<T1Line, MoveXY>>}

InitGrid == InitWith(GridPrograms, GridOptions)

SpecGrid == InitGrid /\ [][Next]_vars

\* generateReplicatedGCode is not running.
GenIdle ==
    /\ src = <<>>
    /\ opt = Options(1, 1, "positive", "positive", FALSE, <<>>)
    /\ pc = "idle"
    /\ skipSet = {}
    /\ positions = <<>>
    /\ segments = <<>>
    /\ parts3 = [phase |-> "preamble", preamble |-> <<>>, cutting |-> <<>>, postamble |-> <<>>]
    /\ output = <<>>
    /\ posIndex = 0
    /\ grpIndex = 0
    /\ fn = NoFn

\* The lines of the programs explored for the bounds:
\*   G0 X50 Y50, G1 X10 Y20, X5 Y0, G1 Z-2, G91,
\*   G2 X5 Y0 I-5 J0 (from (5,0): a full circle about the origin),
\*   G3 X0 Y5 I-5 J0 (from (5,0): a quarter circle about the origin),
\*   G53 G0 X7 Y7, and a comment.
RapidXY == BLn("code", {"G0"}, <<50>>, <<50>>, <<>>, <<>>, <<>>)
CutXY == BLn("code", {"G1"}, <<10>>, <<20>>, <<>>, <<>>, <<>>)
ModalXY == BLn("code", {}, <<5>>, <<0>>, <<>>, <<>>, <<>>)
CutZ == BLn("code", {"G1"}, <<>>, <<>>, <<0 - 2>>, <<>>, <<>>)
IncLine == BLn("code", {"G91"}, <<>>, <<>>, <<>>, <<>>, <<>>)
CircleCW == BLn("code", {"G2"}, <<5>>, <<0>>, <<>>, <<0 - 5>>, <<0>>)
QuarterCCW == BLn("code", {"G3"}, <<0>>, <<5>>, <<>>, <<0 - 5>>, <<0>>)
MachineXY == BLn("code", {"G53", "G0"}, <<7>>, <<7>>, <<>>, <<>>, <<>>)
CommentLine == BLn("paren", {}, <<>>, <<>>, <<>>, <<>>, <<>>)

BoundsLines ==
    {RapidXY, CutXY, ModalXY, CutZ, IncLine, CircleCW, QuarterCCW, MachineXY, CommentLine}

InitBounds ==
    /\ gcodeContent \in {p \in Programs(BoundsLines) : arcsInDomain(initialAnalysis, p)}
    /\ lineNo = 0
    /\ current = initialAnalysis.current
    /\ modal = initialAnalysis.modal
    /\ bounds = initialBounds
    /\ returned = FALSE
    /\ GenIdle
    /\ DialogIdle
    /\ JobIdle
    /\ ClosureIdle
    /\ ArcIdle

SpecBounds == InitBounds /\ [][NextBounds]_vars

\* The lines of the programs explored for the arc-centre mode:
\*   X5 Y0, G90.1, G91.1, G90.1 G91.1, G53 G90.1,
\*   G3 X-15 Y0 I-5 (from (5,0): a half circle about (-5,0) or about (0,0)),
\*   G2 X5 Y-10 J-5 (from (5,0): a half circle about (5,-5)), and a comment.
ArcAbsLine == BLn("code", {"G90.1"}, <<>>, <<>>, <<>>, <<>>, <<>>)
ArcIncLine == BLn("code", {"G91.1"}, <<>>, <<>>, <<>>, <<>>, <<>>)
ArcBothLine == BLn("code", {"G90.1", "G91.1"}, <<>>, <<>>, <<>>, <<>>, <<>>)
MachineArcAbs == BLn("code", {"G53", "G90.1"}, <<>>, <<>>, <<>>, <<>>, <<>>)
HalfCCW == BLn("code", {"G3"}, <<0 - 15>>, <<0>>, <<>>, <<0 - 5>>, <<>>)
HalfCW == BLn("code", {"G2"}, <<5>>, <<0 - 10>>, <<>>, <<>>, <<0 - 5>>)

ArcModeLinesExplored ==
    {ModalXY, ArcAbsLine, ArcIncLine, ArcBothLine, MachineArcAbs, HalfCCW, HalfCW, CommentLine}

InitArcMode ==
    /\ gcodeContent \in {p \in Programs(ArcModeLinesExplored) : arcsInDomain(initialAnalysis, p)}
    /\ lineNo = 0
    /\ current = initialAnalysis.current
    /\ modal = initialAnalysis.modal
    /\ bounds = initialBounds
    /\ returned = FALSE
    /\ GenIdle
    /\ DialogIdle
    /\ JobIdle
    /\ ClosureIdle
    /\ ArcIdle

SpecArcMode == InitArcMode /\ [][NextBounds]_vars

\* The lines of the programs explored for numerals beyond the range of a
\* double, all in absolute mode:
\*   G1 X1000...0 (310 digits; parseFloat of line 86 returns Infinity),
\*   G0 X50 Y50, G1 X10 Y20, G1 Z-2, and a comment.
HugeX == BLn("code", {"G1"}, <<Infinity>>, <<>>, <<>>, <<>>, <<>>)

HugeLines == {HugeX, RapidXY, CutXY, CutZ, CommentLine}

InitHuge ==
    /\ gcodeContent \in Programs(HugeLines)
    /\ lineNo = 0
    /\ current = initialAnalysis.current
    /\ modal = initialAnalysis.modal
    /\ bounds = initialBounds
    /\ returned = FALSE
    /\ GenIdle
    /\ DialogIdle
    /\ JobIdle
    /\ ClosureIdle
    /\ ArcIdle

SpecHuge == InitHuge /\ [][NextBounds]_vars

\* A part 10 mm x 20 mm on a machine of 25 mm x 45 mm.
PartWidth == 1000
PartHeight == 2000
MachineLimitsX == 2500
MachineLimitsY == 4500

\* Lines 622-729 and 1418: the dialog opens with the saved settings in its
\* fields and runs updatePreview once.
InitDialog ==
    /\ dialog \in {[open |-> TRUE, isImperial |-> u, partWidth |-> PartWidth,
                    partHeight |-> PartHeight, machineLimitsX |-> MachineLimitsX,
                    machineLimitsY |-> MachineLimitsY] : u \in BOOLEAN}
    /\ fields \in {[rows |-> 1, columns |-> 2, gapX |-> 0, gapY |-> 0,
                    rowDirection |-> "positive", columnDirection |-> "positive",
                    sortByTool |-> FALSE, skipInstances |-> sk] :
                      sk \in {<<>>, <<(<<Num(2)>>)>>}}
    /\ preview = updatePreview(dialog, fields)
    /\ genCall = NoCall
    /\ GenIdle
    /\ BoundsIdle
    /\ JobIdle
    /\ ClosureIdle
    /\ ArcIdle

SpecDialog == InitDialog /\ [][NextDialog]_vars

\* The file names explored: plain names, a name with a quote, names with a
\* backslash.
FileNames ==
    {<<"p">>, <<"q">>, <<"p", "q">>, <<"p", "'">>, <<"\\", "p">>, <<"p", "\\">>}

NextJob ==
    \/ \E name \in FileNames : LoadFile(name)
    \/ ToolClicked
    \/ SubmitLoadTemp
    \/ CloseDialog

InitJob ==
    /\ JobIdle
    /\ GenIdle
    /\ BoundsIdle
    /\ DialogIdle
    /\ ClosureIdle
    /\ ArcIdle

SpecJob == InitJob /\ [][NextJob]_vars

\* Arcs about four centres, between any two places of the ring, either way.
ArcCentres == {0, 0 - 7}

InitArc ==
    /\ arcCall \in [called : {TRUE}, returned : {FALSE},
                    centerX : ArcCentres, centerY : ArcCentres, radius : {ArcRadius},
                    start : 0..(RingSize - 1), end : 0..(RingSize - 1),
                    isClockwise : BOOLEAN]
    /\ arcBox = NoArcBox
    /\ GenIdle
    /\ BoundsIdle
    /\ DialogIdle
    /\ JobIdle
    /\ ClosureIdle

SpecArc == InitArc /\ [][NextArc]_vars

\* A line with every kind of token the closure meets.
XLn(kind, words, x, y, z, i, j, inl) ==
    [kind |-> kind, opname |-> FALSE, words |-> words, tc |-> "none", tnum |-> 0,
     dec |-> inl # <<>>, x |-> x, y |-> y, z |-> z, i |-> i, j |-> j, inl |-> inl]

\* The lines the closure is called with:
\*   G1 X1.0 Y2.0004 Z-1.0,  G2 X0.5 Y0.0 I-0.5 J0.0,  G1 X1.0 (FIX2),
\*   G1 Z-2.0,  G90,  G91,  G91 G91.1,  G53 G90 G0 Z0,  and a comment.
CutXYZ == XLn("code", {"G1"}, <<10000>>, <<20004>>, <<0 - 10000>>, <<>>, <<>>, <<>>)
ArcXYIJ == XLn("code", {"G2"}, <<5000>>, <<0>>, <<>>, <<0 - 5000>>, <<0>>, <<>>)
NotedCut == XLn("code", {"G1"}, <<10000>>, <<>>, <<>>, <<>>, <<>>, <<20000>>)
PlungeZ == XLn("code", {"G1"}, <<>>, <<>>, <<0 - 20000>>, <<>>, <<>>, <<>>)
AbsLine == XLn("code", {"G90"}, <<>>, <<>>, <<>>, <<>>, <<>>, <<>>)
RelLine == XLn("code", {"G91"}, <<>>, <<>>, <<>>, <<>>, <<>>, <<>>)
RelBothLine == XLn("code", {"G91", "G91.1"}, <<>>, <<>>, <<>>, <<>>, <<>>, <<>>)
MachineAbsZ == XLn("code", {"G53", "G90", "G0"}, <<>>, <<>>, <<0>>, <<>>, <<>>, <<>>)
NoteLine == XLn("paren", {}, <<>>, <<>>, <<>>, <<>>, <<>>, <<>>)

ClosureLines ==
    {CutXYZ, ArcXYIJ, NotedCut, PlungeZ, AbsLine, RelLine, RelBothLine, MachineAbsZ, NoteLine}

\* Lines 1162, 1214, 1285, 1334: a closure is made for a position of the grid,
\* here the one at one spacing in X and Y.
InitClosure ==
    /\ fnLines \in Programs(ClosureLines)
    /\ fnAt = 0
    /\ fnClosure = createOffsetFn(SpacingX, SpacingY)
    /\ fnOut = <<>>
    /\ fnModal = initialAnalysis.modal
    /\ GenIdle
    /\ BoundsIdle
    /\ DialogIdle
    /\ JobIdle
    /\ ArcIdle

SpecClosure == InitClosure /\ [][NextClosure]_vars

(***************************** claims ***************************************)
Planned == pc # "start"

\* C2: the list of grid positions has rows*columns minus |skipSet \cap
\* 1..rows*columns| entries, holds no part number of the skip set, and lists
\* the surviving part numbers in strictly increasing order.
C2_PositionsCountAndOrder ==
    Planned =>
      /\ Len(positions) = opt.rows * opt.columns
                          - Cardinality(skipSet \cap (1..(opt.rows * opt.columns)))
      /\ \A k \in 1..Len(positions) : positions[k].partNum \notin skipSet
      /\ \A k \in 1..Len(positions) : positions[k].partNum \in 1..(opt.rows * opt.columns)
      /\ \A k \in 1..(Len(positions) - 1) : positions[k].partNum < positions[k + 1].partNum

\* A 2 x 2 grid with a part skipped in the middle of the order.
C2_Witness ==
    /\ Planned
    /\ opt.rows = 2 /\ opt.columns = 2
    /\ skipSet = {2, 3}
    /\ Len(positions) = 2

Sign(d) == IF d = "positive" THEN 1 ELSE 0 - 1

\* C3: every surviving 0-based cell (row, col) yields the instance with
\* partNum = row*columns + col + 1, row + 1, col + 1, offsetX = col*spacingX*s_x
\* and offsetY = row*spacingY*s_y; nothing else is in the list; part 1 has
\* offset (0, 0).
C3_InstanceFields ==
    Planned =>
      /\ \A row \in 0..(opt.rows - 1), col \in 0..(opt.columns - 1) :
           (row * opt.columns + col + 1) \notin skipSet =>
             \E k \in 1..Len(positions) :
               positions[k] = [partNum |-> row * opt.columns + col + 1,
                               row |-> row + 1, col |-> col + 1,
                               offsetX |-> col * opt.spacingX * Sign(opt.columnDirection),
                               offsetY |-> row * opt.spacingY * Sign(opt.rowDirection)]
      /\ \A k \in 1..Len(positions) :
           /\ positions[k].row \in 1..opt.rows
           /\ positions[k].col \in 1..opt.columns
           /\ positions[k].partNum = (positions[k].row - 1) * opt.columns + positions[k].col
           /\ positions[k].offsetX = (positions[k].col - 1) * opt.spacingX * Sign(opt.columnDirection)
           /\ positions[k].offsetY = (positions[k].row - 1) * opt.spacingY * Sign(opt.rowDirection)
           /\ positions[k].partNum = 1 => positions[k].offsetX = 0 /\ positions[k].offsetY = 0

\* The last cell of a 2 x 2 grid in the negative directions, with part 1 kept.
C3_Witness ==
    /\ Planned
    /\ opt.rows = 2 /\ opt.columns = 2
    /\ opt.rowDirection = "negative" /\ opt.columnDirection = "negative"
    /\ \E k \in 1..Len(positions) :
         /\ positions[k].partNum = 4
         /\ positions[k].offsetX = 0 - opt.spacingX
         /\ positions[k].offsetY = 0 - opt.spacingY
    /\ \E k \in 1..Len(positions) : positions[k].partNum = 1

(******************** claims about the offset transformer *******************)
Abs(v) == IF v >= 0 THEN v ELSE 0 - v

\* The instance a replayed entry belongs to.
PosOfPart(n) == CHOOSE p \in Range(positions) : p.partNum = n

Replayed(e) == e.role = "replay"

\* The lines the transformer always returns as they are.
PassedThrough(line) ==
    line.kind \in {"paren", "semi", "blank"} \/ "G53" \in line.words

RECURSIVE SourceIncremental(_)
SourceIncremental(k) ==
    IF k = 0 THEN FALSE
    ELSE IF src[k].kind \in {"paren", "semi", "pct"} THEN SourceIncremental(k - 1)
    ELSE IF "G91" \in src[k].words THEN TRUE
    ELSE IF "G90" \in src[k].words THEN FALSE
    ELSE SourceIncremental(k - 1)

\* C4: a replayed line that is in incremental mode in the source program (the
\* G91 may sit in the header, the preamble or an earlier tool segment) is
\* emitted with its X and Y values unchanged.
C4_IncrementalNeverOffset ==
    \A k \in 1..Len(output) :
      (Replayed(output[k]) /\ SourceIncremental(output[k].idx)) =>
        /\ output[k].ln.x = src[output[k].idx].x
        /\ output[k].ln.y = src[output[k].idx].y

\* Two replayed entries belong to one rewrite of an instance: the same part
\* and, in sort-by-tool mode, the same tool group.
SameRewrite(e1, e2) ==
    /\ e1.part = e2.part
    /\ opt.sortByTool => e1.grp = e2.grp

ReplayedAt == {k \in 1..Len(output) : Replayed(output[k])}

\* The replayed entry that precedes entry k among the replayed entries (0 if none).
PrevReplayed(k) ==
    IF \E j \in ReplayedAt : j < k
    THEN CHOOSE j \in ReplayedAt : j < k /\ \A i \in ReplayedAt : i < k => i <= j
    ELSE 0

\* C5: the transformer is in absolute mode when the rewrite of an instance
\* begins, and within one instance the mode a line is processed in is the mode
\* the previous line left.
C5_FreshPerInstancePersistentWithin ==
    \A k \in ReplayedAt :
      LET j == PrevReplayed(k)
      IN  IF j # 0 /\ SameRewrite(output[j], output[k])
          THEN output[k].m0 = output[j].m1
          ELSE output[k].m0

(************************* claims about the assembly ************************)
Done == pc = "done"

ToolChangeAt == {k \in 1..Len(output) : isToolChange(output[k].ln)}

\* The tool-change lines of the source, and the tool numbers they name.
SrcToolLines == {k \in 1..Len(src) : isToolChange(src[k])}
SrcToolNumbers == {src[k].tnum : k \in SrcToolLines}

BareProgramEnd(line) == isExactly(line, "M30") \/ isExactly(line, "M2")

\* The tool-change lines of the source that are followed, before the next
\* tool-change line, by at least one line other than a bare M30 / M2.
SrcToolLinesWithBody ==
    {k \in SrcToolLines :
       \E j \in (k + 1)..Len(src) :
         /\ ~isToolChange(src[j]) /\ ~BareProgramEnd(src[j])
         /\ \A i \in (k + 1)..(j - 1) : ~isToolChange(src[i])}

\* C6 as stated: with k the number of distinct tool numbers of the source and
\* m the number of tool segments its tool-change lines open, sort-by-tool emits
\* k tool-change lines and the standard mode m * n.
C6_ToolChangeCountOfSource ==
    Done =>
      Cardinality(ToolChangeAt) =
        IF opt.sortByTool THEN Cardinality(SrcToolNumbers)
        ELSE Cardinality(SrcToolLines) * Len(positions)

\* C6 amended: on a program with at least one tool segment that has a line,
\* k and m count only such segments; a tool-change line followed directly by
\* another tool-change line, or by nothing but bare program-end lines, opens
\* no segment and is not emitted.
C6_ToolChangeCountOfSegments ==
    (Done /\ SrcToolLinesWithBody # {}) =>
      Cardinality(ToolChangeAt) =
        IF opt.sortByTool THEN Cardinality({src[k].tnum : k \in SrcToolLinesWithBody})
        ELSE Cardinality(SrcToolLinesWithBody) * Len(positions)

\* One tool in two segments, replayed for two instances in sort-by-tool mode:
\* one tool-change line.
C6_Witness ==
    /\ Done /\ opt.sortByTool
    /\ Cardinality(SrcToolLinesWithBody) = 2
    /\ Cardinality(SrcToolNumbers) = 1
    /\ Len(positions) = 2
    /\ Cardinality(ToolChangeAt) = 1

FirstToolLine == CHOOSE k \in SrcToolLines : \A j \in SrcToolLines : k <= j

EmittedAt(idx) == {k \in 1..Len(output) : output[k].idx = idx}

\* C7: in sort-by-tool mode on a program with tool changes every source line
\* before the first tool-change line is emitted exactly once, before the first
\* emitted tool-change line.
C7_HeaderOnceBeforeFirstToolChange ==
    (Done /\ opt.sortByTool /\ SrcToolLinesWithBody # {}) =>
      \A idx \in 1..(FirstToolLine - 1) :
        ~BareProgramEnd(src[idx]) =>
          /\ Cardinality(EmittedAt(idx)) = 1
          /\ \A k \in EmittedAt(idx) : \A t \in ToolChangeAt : k < t

\* A program-end command: M30 or M2 on a line that is no comment.
ProgramEndCommand(line) == line.kind = "code" /\ isProgramEndWord(line)

\* C8: the last line of the output is a program-end line and no other emitted
\* line is a program-end command.
C8_ExactlyOneProgramEndLast ==
    Done =>
      /\ Len(output) > 0
      /\ ProgramEndCommand(output[Len(output)].ln)
      /\ \A k \in 1..(Len(output) - 1) : ~ProgramEndCommand(output[k].ln)

\* The source lines C9 speaks of: no comment, no blank, no program end; the
\* tool-change lines, which the generator writes anew, are left out too.
ContentLine(line) ==
    line.kind = "code" /\ ~isProgramEndWord(line) /\ ~isToolChange(line)

\* The emitted line is the source line, its X and Y values written with
\* three decimals.
SameLineTo3Decimals(out, line) ==
    /\ [out EXCEPT !.x = <<>>, !.y = <<>>] = [line EXCEPT !.x = <<>>, !.y = <<>>]
    /\ Len(out.x) = Len(line.x) /\ Len(out.y) = Len(line.y)
    /\ \A n \in 1..Len(line.x) : Abs(out.x[n] - line.x[n]) <= 5
    /\ \A n \in 1..Len(line.y) : Abs(out.y[n] - line.y[n]) <= 5

\* C9: with rows = 1, columns = 1 and nothing skipped every content line of
\* the source (each spindle-stop line included) is in the output exactly once,
\* in source order, with its X and Y values equal to the source values (here:
\* equal once written with three decimals).
C9_SingleInstanceReproducesSource ==
    (Done /\ opt.rows = 1 /\ opt.columns = 1 /\ opt.skipInstances = <<>>) =>
      /\ \A idx \in 1..Len(src) :
           ContentLine(src[idx]) =>
             /\ Cardinality(EmittedAt(idx)) = 1
             /\ \A k \in EmittedAt(idx) : SameLineTo3Decimals(output[k].ln, src[idx])
      /\ \A k1, k2 \in 1..Len(output) :
           (k1 < k2 /\ output[k1].idx # 0 /\ output[k2].idx # 0
            /\ ContentLine(src[output[k1].idx]) /\ ContentLine(src[output[k2].idx]))
             => output[k1].idx < output[k2].idx

\* The number of the tool segment a source line lies in (0: before the first).
SegmentOfLine(idx) == Cardinality({k \in SrcToolLinesWithBody : k < idx})

\* C10: in standard mode on a program with tool changes, the spindle-stop line
\* of tool segment s is emitted in the replay for instance i if and only if i
\* is the last surviving instance and s the last tool segment.
C10_SpindleStopOnlyLastPartLastSegment ==
    (Done /\ ~opt.sortByTool /\ SrcToolLinesWithBody # {}) =>
      \A idx \in 1..Len(src), i \in 1..Len(positions) :
        (isSpindleStopCommand(src[idx]) /\ SegmentOfLine(idx) >= 1) =>
          ((\E k \in EmittedAt(idx) : output[k].part = positions[i].partNum)
            <=> (i = Len(positions)
                 /\ SegmentOfLine(idx) = Cardinality(SrcToolLinesWithBody)))

\* Two tool segments with a spindle stop each, two instances.
C10_Witness ==
    /\ Done /\ ~opt.sortByTool
    /\ Len(positions) = 2
    /\ Cardinality(SrcToolLinesWithBody) = 2
    /\ \E a, b \in 1..Len(src) :
         /\ isSpindleStopCommand(src[a]) /\ SegmentOfLine(a) = 1
         /\ isSpindleStopCommand(src[b]) /\ SegmentOfLine(b) = 2
         /\ EmittedAt(a) = {}
         /\ Cardinality(EmittedAt(b)) = 1

\* C11: in sort-by-tool mode on a program with tool changes, a spindle-stop
\* line of a tool segment is emitted in the replay for instance i if and only
\* if i is the last surviving instance; no replay of an earlier instance holds
\* a spindle-stop line at all.
C11_SortSpindleStopOnlyLastInstance ==
    (Done /\ opt.sortByTool /\ SrcToolLinesWithBody # {}) =>
      /\ \A idx \in 1..Len(src), i \in 1..Len(positions) :
           (isSpindleStopCommand(src[idx]) /\ SegmentOfLine(idx) >= 1) =>
             ((\E k \in EmittedAt(idx) : output[k].part = positions[i].partNum)
               <=> i = Len(positions))
      /\ \A k \in 1..Len(output) :
           (Replayed(output[k]) /\ isSpindleStopCommand(output[k].ln)) =>
             output[k].part = positions[Len(positions)].partNum

\* Two tools with a spindle stop each, two instances: each spindle stop is
\* emitted once.
C11_Witness ==
    /\ Done /\ opt.sortByTool
    /\ Len(positions) = 2
    /\ Len(toolOrder) = 2
    /\ \E a, b \in 1..Len(src) :
         /\ isSpindleStopCommand(src[a]) /\ SegmentOfLine(a) = 1
         /\ isSpindleStopCommand(src[b]) /\ SegmentOfLine(b) = 2
         /\ Cardinality(EmittedAt(a)) = 1
         /\ Cardinality(EmittedAt(b)) = 1

(************************* claims about the bounds **************************)
\* The line the next iteration of the loop reads, and the step that reads it.
NextLine == gcodeContent[lineNo + 1]
LineStep == ~returned /\ lineNo < Len(gcodeContent) /\ lineNo' = lineNo + 1

MotionWords == {"G0", "G00", "G1", "G01", "G2", "G02", "G3", "G03"}

\* The motion mode of the most recent G0-G3 word on a non-comment line at or
\* before line k: 0 if there is none (the programs explored carry at most one
\* such word per line).
MotionWordLines(k) ==
    {n \in 1..k : ~isBoundsComment(gcodeContent[n]) /\ gcodeContent[n].words \cap MotionWords # {}}

MostRecentMotionMode(k) ==
    IF MotionWordLines(k) = {} THEN 0
    ELSE LET n == CHOOSE n \in MotionWordLines(k) : \A q \in MotionWordLines(k) : q <= n
             w == gcodeContent[n].words
         IN  IF w \cap {"G0", "G00"} # {} THEN 0
             ELSE IF w \cap {"G1", "G01"} # {} THEN 1
             ELSE IF w \cap {"G2", "G02"} # {} THEN 2 ELSE 3

ZeroBox == [min |-> [x |-> 0, y |-> 0, z |-> 0], max |-> [x |-> 0, y |-> 0, z |-> 0]]

\* C12: a line read while the motion mode of the most recent G0-G3 word is
\* rapid leaves the bounding box as it is and, unless it is a machine-coordinate
\* (G53) line, moves the tracked position to its end point; a program in which
\* every such word is G0 returns the all-zero box.
C12_RapidsNeverExtendBox ==
    /\ [][(LineStep /\ ~isBoundsComment(NextLine) /\ MostRecentMotionMode(lineNo + 1) = 0) =>
            /\ bounds' = bounds
            /\ ~includes(NextLine, "G53") =>
                 current' = endPosition(NextLine, modal', current)]_vars
    /\ [](returned /\ MostRecentMotionMode(Len(gcodeContent)) = 0
          /\ (\A k \in 1..Len(gcodeContent) : MostRecentMotionMode(k) = 0)
          => bounds = ZeroBox)

\* C13 as stated: the box of the program G1 X10 Y20 alone is (0,0,0)-(10,20,0).
C13_BoxIncludesStart ==
    (returned /\ gcodeContent = <<CutXY>>) =>
      bounds = [min |-> [x |-> 0, y |-> 0, z |-> 0], max |-> [x |-> 10, y |-> 20, z |-> 0]]

\* A line that is no arc, read in a cutting mode.
LinearCutStep ==
    /\ LineStep /\ ~isBoundsComment(NextLine) /\ ~includes(NextLine, "G53")
    /\ modal'.motionMode >= 1
    /\ ~arcOf([current |-> current, modal |-> modal, bounds |-> bounds], NextLine).isArc

\* C13 amended: the box of the program G1 X10 Y20 alone is (10,20,0)-(10,20,0);
\* a linear cutting move extends the box, on each axis the line names, by its
\* end point only, and leaves the other axes as they are: the position the
\* move starts from is not put into the box.
C13_BoxOfEndPointsOnly ==
    /\ []((returned /\ gcodeContent = <<CutXY>>) =>
            bounds = [min |-> [x |-> 10, y |-> 20, z |-> 0],
                      max |-> [x |-> 10, y |-> 20, z |-> 0]])
    /\ [][LinearCutStep =>
            \A a \in {"x", "y", "z"} :
              IF NextLine[a] # <<>>
              THEN /\ bounds'.min[a] = Min2(bounds.min[a], current'[a])
                   /\ bounds'.max[a] = Max2(bounds.max[a], current'[a])
              ELSE /\ bounds'.min[a] = bounds.min[a]
                   /\ bounds'.max[a] = bounds.max[a]]_vars

\* The program G1 X10 Y20 has been analysed: the box is the point (10,20,0).
C13_Witness ==
    /\ returned /\ gcodeContent = <<CutXY>>
    /\ bounds.min.x = 10 /\ bounds.min.y = 20
    /\ bounds.max.x = 10 /\ bounds.max.y = 20

\* A G2 / G3 line with I or J whose end point is the point it starts from, at
\* a distance from the centre.
FullCircleStep ==
    LET arc == arcOf([current |-> current, modal |-> modal, bounds |-> bounds], NextLine)
    IN  /\ LineStep /\ ~isBoundsComment(NextLine) /\ ~includes(NextLine, "G53")
        /\ arc.isArc /\ arc.radius2 > 0
        /\ current' = current

\* C14: after a full-circle arc of radius r about the centre c the box covers
\* [c.x - r, c.x + r] x [c.y - r, c.y + r].
C14_FullCircleBox ==
    [][FullCircleStep =>
         LET arc == arcOf([current |-> current, modal |-> modal, bounds |-> bounds], NextLine)
             r == sqrt(arc.radius2)
         IN  /\ bounds'.min.x <= arc.centerX - r /\ bounds'.max.x >= arc.centerX + r
             /\ bounds'.min.y <= arc.centerY - r /\ bounds'.max.y >= arc.centerY + r]_vars

(************************* claims about the dialog **************************)
\* A field that is an integer and nothing else.
IsInteger(t) == ~t.nan /\ ~t.junk /\ ~t.empty

\* The integers a part lists: the integer itself, or the inclusive range
\* between two integers; a field that is no integer lists nothing.
ListedBy(part) ==
    IF Len(part) = 1 /\ IsInteger(part[1]) THEN {part[1].v}
    ELSE IF Len(part) = 2 /\ IsInteger(part[1]) /\ IsInteger(part[2])
    THEN part[1].v .. part[2].v
    ELSE {}

Listed(input) == UNION {ListedBy(input[n]) : n \in 1..Len(input)}

RangeEndsWithin(input, maxParts) ==
    \A n \in 1..Len(input) : Len(input[n]) >= 2 => input[n][2].v <= maxParts

\* C15: for a skip specification validateSkipInstances accepts, with every
\* range end <= maxParts, parseSkipInstances returns exactly the union of the
\* listed integers and inclusive ranges; the empty input gives the empty set
\* and no error.
C15_ParseIsUnionOfListed ==
    dialog.open =>
      /\ (~preview.skipError.error
          /\ RangeEndsWithin(fields.skipInstances, preview.totalParts))
           => preview.skipSet = Listed(fields.skipInstances)
      /\ fields.skipInstances = <<>> =>
           (preview.skipSet = {} /\ ~preview.skipError.error)

\* The defects of a part C16 names: a field that is no number, an integer
\* < 1, a range whose start is < 1 or whose end is < start, a single value or
\* a range start above maxParts.
Defective(part, maxParts) ==
    \/ \E n \in 1..Len(part) : ~IsInteger(part[n])
    \/ Len(part) > 2
    \/ Len(part) = 1 /\ (part[1].v < 1 \/ part[1].v > maxParts)
    \/ Len(part) = 2 /\ (part[1].v < 1 \/ part[2].v < part[1].v \/ part[1].v > maxParts)

\* C16: validateSkipInstances returns a message naming a defective part
\* whenever some part is defective, and null only when none is.
C16_ErrorIffDefect ==
    dialog.open =>
      LET input == fields.skipInstances
          e == preview.skipError
      IN  /\ (\E n \in 1..Len(input) : Defective(input[n], preview.totalParts)) => e.error
          /\ e.error => (e.part \in Range(input) /\ Defective(e.part, preview.totalParts))

\* C17: while the skip specification has a validation error Generate is
\* disabled and the skip set in use is empty; generateReplicatedGCode is never
\* called with a skip specification that fails validation for the rows *
\* columns of the call.
C17_NoGenerateWithInvalidSkip ==
    /\ (dialog.open /\ preview.skipError.error) =>
         (preview.generateDisabled /\ preview.skipSet = {})
    /\ genCall.called =>
         ~validateSkipInstances(genCall.options.skipInstances,
                                genCall.options.rows * genCall.options.columns).error

\* The footprint of the grid and the gaps, in 1/100 mm, from the fields.
GapXMm == IF dialog.isImperial THEN fields.gapX * 254 ELSE fields.gapX * 10
GapYMm == IF dialog.isImperial THEN fields.gapY * 254 ELSE fields.gapY * 10
FootprintX == fields.columns * dialog.partWidth + (fields.columns - 1) * GapXMm
FootprintY == fields.rows * dialog.partHeight + (fields.rows - 1) * GapYMm
WithinLimits == FootprintX <= dialog.machineLimitsX /\ FootprintY <= dialog.machineLimitsY

C19_SourceFileIsOriginalFile ==
    /\ [](loadTemp.sent => loadTemp.sourceFile = loadTemp.content.file)
    /\ [][(loadTemp' # loadTemp) =>
            loadTemp'.sourceFile =
              IF server.jobLoaded.sourceFile # NoName THEN server.jobLoaded.sourceFile
              ELSE server.jobLoaded.filename]_vars

\* C20: the program text the dialog is opened with, which the bounds analysis
\* and the generation take, is an original program, also while a replicated
\* program is loaded.
C20_ReplicatesFromOriginal ==
    /\ dialogArgs.open => dialogArgs.gcodeContent = Original(dialogArgs.originalSourceFile)
    /\ loadTemp.sent => loadTemp.content.replications = 1

(************************ claims about the offset closure ********************)
\* The line passed in call k is one the closure returns as it is by its first
\* tests: a comment, a blank line, a line with G53, a line without X or Y.
PassedAsIs(line) ==
    \/ startsWithParen(line) \/ startsWithSemi(line) \/ isBlank(line)
    \/ includes(line, "G53")
    \/ (line.x = <<>> /\ line.y = <<>>)

\* C21: a comment, a blank line, a line with G53 and a line without X or Y
\* are returned unchanged; in a line the closure rewrites, only the X and Y
\* values differ from the source line: Z, I, J and all other tokens are the
\* same.
C21_OnlyXYChange ==
    \A k \in 1..fnAt :
        /\ PassedAsIs(fnLines[k]) => fnOut[k] = fnLines[k]
        /\ \A f \in DOMAIN fnLines[k] \ {"x", "y"} : fnOut[k][f] = fnLines[k][f]

\* The line of the next call, and whether both functions read its tokens: it
\* is no comment, no blank line and carries no G53.
NextCallLine == fnLines[fnAt + 1]

ReadByBoth(line) ==
    /\ ~isBoundsComment(line)
    /\ ~startsWithParen(line) /\ ~startsWithSemi(line) /\ ~isBlank(line)
    /\ ~includes(line, "G53")

\* C29: in the bounds analyzer and in the offset closure alike, a G91 token
\* makes the positioning incremental and a G90 token makes it absolute, also
\* on a line that carries G90.1 or G91.1 besides.
C29_ModeTokenAlwaysApplies ==
    [][(fnAt < Len(fnLines) /\ ReadByBoth(NextCallLine)) =>
         /\ ("G91" \in NextCallLine.words /\ "G90" \notin NextCallLine.words)
              => (~fnModal'.isAbsolute /\ ~fnClosure'.isAbsolute)
         /\ ("G90" \in NextCallLine.words /\ "G91" \notin NextCallLine.words)
              => (fnModal'.isAbsolute /\ fnClosure'.isAbsolute)]_vars

\* C30: the closure follows the G90/G91 tokens of every line that is not a
\* comment, the lines it returns unchanged included (lines without X or Y,
\* lines with G53); a mode token counts for the coordinates of its own line;
\* after any lines the closure's mode is the mode the bounds analyzer holds.
C30_ClosureModeIsAnalyzerMode ==
    fnClosure.isAbsolute = fnModal.isAbsolute

(************************ claims about sort-by-tool **************************)
\* The tool-change line a source line stands under (0: none), and its tool.
ToolLineOf(idx) ==
    IF \E k \in SrcToolLines : k < idx
    THEN CHOOSE k \in SrcToolLines : k < idx /\ \A j \in SrcToolLines : j < idx => j <= k
    ELSE 0

ToolOfLine(idx) == src[ToolLineOf(idx)].tnum

\* The tool-change entry of the output an entry stands under (0: none).
ToolEntryOf(k) ==
    IF \E t \in ToolChangeAt : t < k
    THEN CHOOSE t \in ToolChangeAt : t < k /\ \A u \in ToolChangeAt : u < k => u <= t
    ELSE 0

\* Where a tool is first seen in the source: among all tool-change lines, and
\* among those that open a segment with lines.
FirstSeen(t) ==
    CHOOSE k \in SrcToolLines : src[k].tnum = t /\ \A j \in SrcToolLines : src[j].tnum = t => k <= j

FirstSeenWithBody(t) ==
    CHOOSE k \in SrcToolLinesWithBody :
        src[k].tnum = t /\ \A j \in SrcToolLinesWithBody : src[j].tnum = t => k <= j

\* The place of an instance in the list of positions.
PlaceOfPart(n) == CHOOSE i \in 1..Len(positions) : positions[i].partNum = n

\* The replays of the output stand under the tool of their source line, every
\* line of a tool is replayed once for every instance (a spindle stop for the
\* last instance only), and under one tool the replays follow the grid order
\* of the instances and, for one instance, the order of the source.
ReplaysGroupedByTool ==
    /\ \A k \in ReplayedAt :
         /\ ToolEntryOf(k) # 0 /\ ToolLineOf(output[k].idx) # 0
         /\ output[ToolEntryOf(k)].ln.tnum = ToolOfLine(output[k].idx)
    /\ \A idx \in 1..Len(src), i \in 1..Len(positions) :
         (ToolLineOf(idx) # 0 /\ ~isToolChange(src[idx]) /\ ~BareProgramEnd(src[idx])) =>
           Cardinality({k \in ReplayedAt :
                          output[k].idx = idx /\ output[k].part = positions[i].partNum})
             = IF isSpindleStopCommand(src[idx]) /\ i # Len(positions) THEN 0 ELSE 1
    /\ \A j, k \in ReplayedAt :
         (j < k /\ ToolEntryOf(j) = ToolEntryOf(k)) =>
           \/ PlaceOfPart(output[j].part) < PlaceOfPart(output[k].part)
           \/ /\ output[j].part = output[k].part
              /\ output[j].idx < output[k].idx

\* C22 as stated: in sort-by-tool output the tools stand in the order in
\* which the source first names them, and under each tool stand the lines of
\* all its segments, for all surviving instances in grid order, before the
\* next tool.
C22_ToolsInFirstSeenOrder ==
    (Done /\ opt.sortByTool /\ SrcToolLinesWithBody # {}) =>
      /\ \A j, k \in ToolChangeAt :
           j < k => FirstSeen(output[j].ln.tnum) < FirstSeen(output[k].ln.tnum)
      /\ ReplaysGroupedByTool

\* C22 amended: the order of the tools is that of their first tool-change
\* line that is followed by at least one line of its own.
C22_ToolsInFirstSegmentOrder ==
    (Done /\ opt.sortByTool /\ SrcToolLinesWithBody # {}) =>
      /\ \A j, k \in ToolChangeAt :
           j < k => FirstSeenWithBody(output[j].ln.tnum) < FirstSeenWithBody(output[k].ln.tnum)
      /\ ReplaysGroupedByTool

\* Tool 1 in two segments around one segment of tool 2, two instances: the
\* second segment of tool 1 is replayed before the line of tool 2.
C22_Witness ==
    /\ Done /\ opt.sortByTool
    /\ Len(positions) = 2
    /\ Len(toolOrder) = 2
    /\ Len(toolSegments) = 3
    /\ \E j, k \in ReplayedAt : j < k /\ output[j].idx > output[k].idx

(************************ claims about parseToolSegments *********************)
\* The lines of a list of segments, one after the other.
RECURSIVE FlattenLines(_)
FlattenLines(segs) ==
    IF segs = <<>> THEN <<>> ELSE Head(segs).lines \o FlattenLines(Tail(segs))

\* The source lines that are neither a tool change nor a bare M30 / M2.
KeptLines == {k \in 1..Len(src) : ~isToolChange(src[k]) /\ ~BareProgramEnd(src[k])}

\* C23: parseToolSegments returns at most one header segment (no tool
\* number), and it is the first; every segment has a line; no segment holds a
\* tool-change line or a bare M30 / M2; the lines of the segments one after
\* the other are the remaining source lines in source order.
C23_SegmentsPartitionSource ==
    Done =>
      /\ \A n \in 1..Len(segments) :
           /\ segments[n].isHeader <=> segments[n].toolNum = NoTool
           /\ segments[n].isHeader => n = 1
           /\ Len(segments[n].lines) >= 1
           /\ \A m \in 1..Len(segments[n].lines) : segments[n].lines[m] \in KeptLines
      /\ Len(FlattenLines(segments)) = Cardinality(KeptLines)
      /\ \A a, b \in 1..Len(FlattenLines(segments)) :
           a < b => FlattenLines(segments)[a] < FlattenLines(segments)[b]

\* A header, a tool segment, and a bare program end in the source.
C23_Witness ==
    /\ Done
    /\ Len(segments) = 2 /\ segments[1].isHeader
    /\ \E k \in 1..Len(src) : BareProgramEnd(src[k])

(************************ claims about the three-way split *******************)
\* The entries of the output that carry source line idx for instance n.
EmittedFor(idx, n) == {k \in EmittedAt(idx) : output[k].part = n}

\* C24: on a source without tool changes the split puts every line that is
\* no program end into exactly one of preamble, cutting body and postamble,
\* the three in this order being the source order; the lines of preamble and
\* postamble are emitted once, as they are, and the lines of the cutting body
\* once for every surviving instance.
C24_ThreeWaySplit ==
    (Done /\ SrcToolLines = {}) =>
      LET all == parts3.preamble \o parts3.cutting \o parts3.postamble
      IN  /\ Range(all) = {k \in 1..Len(src) : ~isProgramEndWord(src[k])}
          /\ \A a, b \in 1..Len(all) : a < b => all[a] < all[b]
          /\ \A idx \in Range(parts3.preamble) \cup Range(parts3.postamble) :
               /\ Cardinality(EmittedAt(idx)) = 1
               /\ \A k \in EmittedAt(idx) : output[k].ln = src[idx] /\ output[k].role = "raw"
          /\ \A idx \in Range(parts3.cutting) :
               /\ \A i \in 1..Len(positions) :
                    Cardinality(EmittedFor(idx, positions[i].partNum)) = 1
               /\ Cardinality(EmittedAt(idx)) = Len(positions)
          /\ \A j, k \in 1..Len(output) :
               \/ j < k
               \/ ~ \/ /\ output[j].idx \in Range(parts3.preamble)
                        /\ output[k].idx \in Range(parts3.cutting) \cup Range(parts3.postamble)
                     \/ /\ output[j].idx \in Range(parts3.cutting)
                        /\ output[k].idx \in Range(parts3.postamble)

\* A preamble, a cutting body and a postamble, and two instances.
C24_Witness ==
    /\ Done /\ SrcToolLines = {}
    /\ parts3.preamble # <<>> /\ parts3.cutting # <<>> /\ parts3.postamble # <<>>
    /\ Len(positions) = 2

(********************* claims about the two strategies ***********************)
\* The program lines of an output: all but the generated comments and blank
\* lines.
ProgramLines(out) ==
    LET prog == SelectSeq(out, LAMBDA e : e.role # "info")
    IN  [n \in 1..Len(prog) |-> prog[n].ln]

\* The standard replication of a source without tool changes (lines
\* 1273-1300), from instance i on.
RECURSIVE StandardReplays(_)
StandardReplays(i) ==
    IF i > Len(positions) THEN <<>>
    ELSE simpleLoop([fn |-> createOffsetFn(positions[i].offsetX, positions[i].offsetY),
                     output |-> <<>>],
                    src, parts3.cutting, i = Len(positions), positions[i].partNum).output
           \o StandardReplays(i + 1)

StandardOutput ==
    RawAll(src, parts3.preamble) \o StandardReplays(1) \o RawAll(src, parts3.postamble)
      \o <<Out(EndLine, "end", 0, 0, 0, TRUE, TRUE)>>

\* C25: on a source without tool-change lines the output of either strategy
\* has, apart from the generated comments, the program lines of the standard
\* replication; so sortByTool = true and sortByTool = false, which are both
\* explored for every program and grid, give the same program lines.
C25_StrategiesAgreeWithoutTools ==
    (Done /\ SrcToolLines = {}) => ProgramLines(output) = ProgramLines(StandardOutput)

\* Sort-by-tool on a source without tool change whose cutting body holds an
\* operation comment, for two instances.
C25_Witness ==
    /\ Done /\ opt.sortByTool /\ SrcToolLines = {}
    /\ Len(positions) = 2
    /\ \E n \in 1..Len(parts3.cutting) : isOperationNameComment(src[parts3.cutting[n]])
    /\ parts3.postamble # <<>>

(******************* claims about the operation comments *********************)
\* The calls of processLinesWithCommentRepositioning of a run: one for every
\* instance and group, a group being the cutting body (0), a tool of toolOrder
\* (sort-by-tool) or a tool segment (standard).
Repositioning == opt.sortByTool \/ toolSegments # <<>>

Groups ==
    IF toolSegments = <<>> THEN {0}
    ELSE IF opt.sortByTool THEN 1..Len(toolOrder)
    ELSE 1..Len(toolSegments)

\* The lines a call is made with, as places in the source.
CallLines(g) ==
    IF toolSegments = <<>> THEN parts3.cutting
    ELSE IF opt.sortByTool THEN allLinesForTool(toolSegments, toolOrder[g])
    ELSE toolSegments[g].lines

\* The skipSpindleStop argument of the call for the instance at place i.
CallSkipsStop(i, g) ==
    IF toolSegments # <<>> /\ ~opt.sortByTool
    THEN ~(i = Len(positions) /\ g = Len(toolSegments))
    ELSE i # Len(positions)

\* The entries the call for instance n and group g has pushed for line idx.
PushedBy(n, g, idx) ==
    {k \in 1..Len(output) :
       /\ output[k].role \in {"replay", "moved"}
       /\ output[k].part = n /\ output[k].grp = g /\ output[k].idx = idx}

IsCommentOrBlank(line) == startsWithParen(line) \/ startsWithSemi(line) \/ isBlank(line)

\* Line n of the list is an operation comment that follows a G53 line with
\* only comments and blank lines in between.
CommentAfterRetract(L, n) ==
    /\ isOperationNameComment(src[L[n]])
    /\ \E m \in 1..(n - 1) :
         /\ includes(src[L[m]], "G53")
         /\ \A j \in (m + 1)..(n - 1) : IsCommentOrBlank(src[L[j]])

StartsAfter(L, n) == {t \in (n + 1)..Len(L) : isOperationStart(src[L[t]])}

NextStart(L, n) == CHOOSE t \in StartsAfter(L, n) : \A u \in StartsAfter(L, n) : t <= u

\* C26: in a call of processLinesWithCommentRepositioning an operation comment
\* that follows a G53 line with only comments or blank lines in between is
\* pushed once, directly before the next line that starts an operation; every
\* other line that is no suppressed spindle stop is pushed once, in source
\* order.
C26_CommentMovedToNextStart ==
    (Done /\ Repositioning) =>
      \A i \in 1..Len(positions), g \in Groups :
        LET L == CallLines(g)
            part == positions[i].partNum
            Plain == {n \in 1..Len(L) :
                        /\ ~CommentAfterRetract(L, n)
                        /\ ~(CallSkipsStop(i, g) /\ isSpindleStopCommand(src[L[n]]))}
        IN  /\ \A n \in 1..Len(L) :
                 (CommentAfterRetract(L, n) /\ StartsAfter(L, n) # {}) =>
                   /\ Cardinality(PushedBy(part, g, L[n])) = 1
                   /\ \A k \in PushedBy(part, g, L[n]) :
                        k + 1 \in PushedBy(part, g, L[NextStart(L, n)])
            /\ \A n \in Plain : Cardinality(PushedBy(part, g, L[n])) = 1
            /\ \A a, b \in Plain :
                 a < b => \A j \in PushedBy(part, g, L[a]), k \in PushedBy(part, g, L[b]) : j < k

\* The calls in which an operation comment is withheld after a G53 line and no
\* line of the list after it starts an operation.
OrphanedComments ==
    {c \in (1..Len(positions)) \X Groups \X (1..Len(src)) :
       /\ c[3] <= Len(CallLines(c[2]))
       /\ CommentAfterRetract(CallLines(c[2]), c[3])
       /\ StartsAfter(CallLines(c[2]), c[3]) = {}}

\* C27: a withheld comment that no operation start follows within its segment
\* is not in the output; a moved comment is always directly followed by the
\* operation start of its own call, so none is pushed after the last line.
C27_OrphanedCommentDropped ==
    (Done /\ Repositioning) =>
      /\ \A c \in OrphanedComments :
           PushedBy(positions[c[1]].partNum, c[2], CallLines(c[2])[c[3]]) = {}
      /\ \A k \in 1..Len(output) :
           output[k].role = "moved" =>
             /\ k < Len(output)
             /\ output[k + 1].role = "replay"
             /\ output[k + 1].part = output[k].part
             /\ output[k + 1].grp = output[k].grp
             /\ output[k + 1].idx > output[k].idx
             /\ isOperationStart(src[output[k + 1].idx])

\* A finished run with an orphaned comment whose G53 line was replayed.
C27_Witness ==
    /\ Done /\ Repositioning
    /\ \E c \in OrphanedComments :
         /\ PushedBy(positions[c[1]].partNum, c[2], CallLines(c[2])[c[3]]) = {}
         /\ \E m \in 1..(c[3] - 1) :
              /\ includes(src[CallLines(c[2])[m]], "G53")
              /\ PushedBy(positions[c[1]].partNum, c[2], CallLines(c[2])[m]) # {}

(********************* claims about machine-coordinate lines ****************)
MachineLine(line) == ~isBoundsComment(line) /\ includes(line, "G53")

\* C28: the iteration of analyzeGCodeBounds that reads a non-comment G53 line
\* leaves the tracked position and the box as they were; the line read after
\* it starts from the position held before the G53 line: an axis it does not
\* name keeps the value the line before the G53 line gave it in absolute mode.
C28_MachineLineLeavesPositionAndBox ==
    [][/\ (LineStep /\ MachineLine(NextLine)) =>
            (current' = current /\ bounds' = bounds)
       /\ (/\ LineStep /\ lineNo >= 2
           /\ MachineLine(gcodeContent[lineNo])
           /\ ~includes(gcodeContent[lineNo], "G90") /\ ~includes(gcodeContent[lineNo], "G91")
           /\ ~isBoundsComment(gcodeContent[lineNo - 1])
           /\ ~MachineLine(gcodeContent[lineNo - 1])
           /\ modal.isAbsolute
           /\ ~isBoundsComment(NextLine) /\ ~MachineLine(NextLine)) =>
            /\ (Len(gcodeContent[lineNo - 1].x) > 0 /\ Len(NextLine.x) = 0) =>
                 current'.x = gcodeContent[lineNo - 1].x[1]
            /\ (Len(gcodeContent[lineNo - 1].y) > 0 /\ Len(NextLine.y) = 0) =>
                 current'.y = gcodeContent[lineNo - 1].y[1]
      ]_vars

\* The line G1 Z-2 has been read after G1 X10 Y20 and G53 G0 X7 Y7: the
\* position is that of the cut, lowered, and the box is that of the cut.
C28_Witness ==
    /\ lineNo >= 3 /\ ~returned
    /\ gcodeContent[lineNo] = CutZ
    /\ gcodeContent[lineNo - 1] = MachineXY
    /\ gcodeContent[lineNo - 2] = CutXY
    /\ current = [x |-> 10, y |-> 20, z |-> 0 - 2]
    /\ bounds.max.x = 10 /\ bounds.max.y = 20

(************************* claims about the arcs ****************************)
\* The places of the ring an arc passes from start to end: downwards for a
\* clockwise arc, upwards for a counter-clockwise one, around the ring.
Swept(start, end, isClockwise) ==
    IF isClockwise
    THEN {(start + RingSize - k) % RingSize : k \in 0..((start + RingSize - end) % RingSize)}
    ELSE {(start + k) % RingSize : k \in 0..((end + RingSize - start) % RingSize)}

ArcSwept == Swept(arcCall.start, arcCall.end, arcCall.isClockwise)

\* The places of the ring at 0, 90, 180 and 270 degrees.
RingPlace(dx, dy) == CHOOSE n \in 0..(RingSize - 1) : Ring[n + 1] = [dx |-> dx, dy |-> dy]

East == RingPlace(ArcRadius, 0)
North == RingPlace(0, ArcRadius)
West == RingPlace(0 - ArcRadius, 0)
South == RingPlace(0, 0 - ArcRadius)

RingX(n) == arcCall.centerX + Ring[n + 1].dx
RingY(n) == arcCall.centerY + Ring[n + 1].dy

\* C31: the rectangle calculateArcBounds returns contains both end points of
\* the arc, lies within centre-radius..centre+radius on each axis, and reaches
\* centre+radius or centre-radius on an axis exactly when the cardinal angle
\* there lies on the arc swept from start to end in the given direction.
C31_ArcBoxByCardinals ==
    (arcCall.called /\ arcCall.returned) =>
      /\ \A n \in {arcCall.start, arcCall.end} :
           /\ arcBox.minX <= RingX(n) /\ RingX(n) <= arcBox.maxX
           /\ arcBox.minY <= RingY(n) /\ RingY(n) <= arcBox.maxY
      /\ arcCall.centerX - arcCall.radius <= arcBox.minX
      /\ arcBox.maxX <= arcCall.centerX + arcCall.radius
      /\ arcCall.centerY - arcCall.radius <= arcBox.minY
      /\ arcBox.maxY <= arcCall.centerY + arcCall.radius
      /\ (arcBox.maxX = arcCall.centerX + arcCall.radius) <=> (East \in ArcSwept)
      /\ (arcBox.maxY = arcCall.centerY + arcCall.radius) <=> (North \in ArcSwept)
      /\ (arcBox.minX = arcCall.centerX - arcCall.radius) <=> (West \in ArcSwept)
      /\ (arcBox.minY = arcCall.centerY - arcCall.radius) <=> (South \in ArcSwept)

\* A clockwise arc from (3, 4) down past 0 degrees and on to (-4, -3), about
\* (-7, 0), has returned: it wraps around and passes east and south only.
C31_Witness ==
    /\ arcCall.called /\ arcCall.returned
    /\ arcCall.isClockwise /\ arcCall.start = 2 /\ arcCall.end = 7
    /\ arcCall.centerX = 0 - 7 /\ arcCall.centerY = 0
    /\ arcBox = [minX |-> 0 - 11, maxX |-> 0 - 2, minY |-> 0 - 5, maxY |-> 4]

\* The non-comment lines up to line k that carry G90.1 or G91.1, and the
\* arc-centre mode they leave: absolute when the last of them has no G91.1.
ArcModeLines(k) ==
    {n \in 1..k : /\ ~isBoundsComment(gcodeContent[n])
                  /\ includes(gcodeContent[n], "G90.1") \/ includes(gcodeContent[n], "G91.1")}

ArcCentreAbsoluteAt(k) ==
    /\ ArcModeLines(k) # {}
    /\ \E n \in ArcModeLines(k) :
         /\ \A q \in ArcModeLines(k) : q <= n
         /\ ~includes(gcodeContent[n], "G91.1")

WordOrZero(match) == IF match = <<>> THEN 0 ELSE match[1]

\* The whole part of the square root of n.
WholeRoot(n) == CHOOSE r \in 0..n : r * r <= n /\ (r + 1) * (r + 1) > n

\* The box of the arc of the line read next, about the centre (cx, cy), from
\* the position before the line to the position after it.
ArcBoxAbout(cx, cy) ==
    calculateArcBounds(cx, cy,
                       WholeRoot((current.x - cx) * (current.x - cx)
                                 + (current.y - cy) * (current.y - cy)),
                       atan2(current.y - cy, current.x - cx),
                       atan2(current'.y - cy, current'.x - cx),
                       modal'.motionMode = 2)

\* C32: the arc-centre mode after a non-comment line is absolute exactly when
\* the last line with G90.1 or G91.1 so far has no G91.1; on a line with I or
\* J in motion mode G2 or G3 the box grows by the arc about (I, J) in absolute
\* mode and about the position before the line plus (I, J) otherwise, a
\* missing I or J counting as 0, measured from the position before the line.
C32_ArcCentreByMode ==
    [][/\ (LineStep /\ ~isBoundsComment(NextLine)) =>
            modal'.isArcAbsolute = ArcCentreAbsoluteAt(lineNo + 1)
       /\ (/\ LineStep /\ ~isBoundsComment(NextLine) /\ ~MachineLine(NextLine)
           /\ modal'.motionMode \in {2, 3}
           /\ NextLine.i # <<>> \/ NextLine.j # <<>>) =>
            bounds' = extendBox(
                        withArc(bounds,
                                IF ArcCentreAbsoluteAt(lineNo + 1)
                                THEN ArcBoxAbout(WordOrZero(NextLine.i), WordOrZero(NextLine.j))
                                ELSE ArcBoxAbout(current.x + WordOrZero(NextLine.i),
                                                 current.y + WordOrZero(NextLine.j))),
                        TRUE, NextLine, current', current)
      ]_vars

\* G3 X-15 Y0 I-5 has been read at (5, 0) in absolute arc-centre mode: the
\* half circle about (-5, 0) of radius 10 reaches Y = 10.
C32_Witness ==
    /\ lineNo >= 3 /\ ~returned
    /\ gcodeContent[lineNo] = HalfCCW
    /\ modal.isArcAbsolute
    /\ current = [x |-> 0 - 15, y |-> 0, z |-> 0]
    /\ bounds.min.x = 0 - 15 /\ bounds.max.x = 5
    /\ bounds.min.y = 0 /\ bounds.max.y = 10

(********************* claims about the returned box ************************)
\* The lines the loop reads for motion: neither comments nor G53 lines.
ReadForMotion(n) == ~isBoundsComment(gcodeContent[n]) /\ ~MachineLine(gcodeContent[n])

\* Line n is read in a cutting mode: the last motion word on a line read for
\* motion, up to line n, is none of G0 and G00.
CuttingAt(n) ==
    \E q \in 1..n :
      /\ ReadForMotion(q)
      /\ gcodeContent[q].words \cap MotionWords # {}
      /\ gcodeContent[q].words \cap {"G0", "G00"} = {}
      /\ \A t \in (q + 1)..n :
           ~(ReadForMotion(t) /\ gcodeContent[t].words \cap MotionWords # {})

ArcAt(n) ==
    /\ \E q \in 1..n :
         /\ ReadForMotion(q)
         /\ gcodeContent[q].words \cap {"G2", "G02", "G3", "G03"} # {}
         /\ \A t \in (q + 1)..n :
              ~(ReadForMotion(t) /\ gcodeContent[t].words \cap MotionWords # {})
    /\ gcodeContent[n].i # <<>> \/ gcodeContent[n].j # <<>>

\* Some cutting move or arc of the program contributes to the axis.
Contributes(axis) ==
    \E n \in 1..Len(gcodeContent) :
      /\ ReadForMotion(n)
      /\ \/ CuttingAt(n) /\ gcodeContent[n][axis] # <<>>
         \/ axis \in {"x", "y"} /\ ArcAt(n)

\* C33: the box analyzeGCodeBounds returns has no infinite component and
\* min <= max on X, Y and Z; an axis no cutting move and no arc contributed to
\* has min = max = 0.
C33_ReturnedBoxFinite ==
    returned =>
      \A axis \in {"x", "y", "z"} :
        /\ bounds.min[axis] # Infinity /\ bounds.min[axis] # 0 - Infinity
        /\ bounds.max[axis] # Infinity /\ bounds.max[axis] # 0 - Infinity
        /\ bounds.min[axis] <= bounds.max[axis]
        /\ ~Contributes(axis) => (bounds.min[axis] = 0 /\ bounds.max[axis] = 0)

(******************* claims about the call from the dialog ******************)
\* The instances generateReplicatedGCode makes of the options it is called
\* with (lines 1062-1085), and the replica count updatePreview displays.
GeneratedInstances(o) ==
    Len(gridPositions(o, parseSkipInstances(o.skipInstances, totalParts(o))))

DisplayedCount == preview.totalParts - Cardinality(preview.skipSet)

\* C34: a call of generateReplicatedGCode from the dialog has rows >= 1,
\* columns >= 1, spacingX > 0 and spacingY > 0, and makes as many instances as
\* the preview displays for the same inputs.
C34_CallWithValidGrid ==
    genCall.called =>
      /\ genCall.options.rows >= 1
      /\ genCall.options.columns >= 1
      /\ genCall.options.spacingX > 0
      /\ genCall.options.spacingY > 0
      /\ GeneratedInstances(genCall.options) = DisplayedCount

(************************ claims about the spindle **************************)
\* In a sequence of lines a spindle stop lies between every spindle start and
\* every tool change after it.
StoppedBeforeToolChange(lines) ==
    \A a \in 1..Len(lines) :
      isSpindleStart(lines[a]) =>
        \A t \in (a + 1)..Len(lines) :
          isToolChange(lines[t]) =>
            \E m \in (a + 1)..(t - 1) : isSpindleStopCommand(lines[m])

OutputLines == [k \in 1..Len(output) |-> output[k].ln]

\* C35: when every spindle start of the source is followed by a spindle stop
\* before the next tool-change line, so is every spindle start of the output:
\* no tool change is emitted while the spindle runs.
C35_NoToolChangeWhileSpindleRuns ==
    (Done /\ StoppedBeforeToolChange(src)) => StoppedBeforeToolChange(OutputLines)

(****************** claims about instances side by side *********************)
\* What the call for instance n and group g has pushed, spindle stops left
\* out: for every entry, the source line it stems from and whether the line
\* was pushed where it stood or moved.
PushedByCall(n, g) ==
    SelectSeq(output, LAMBDA e : /\ e.role \in {"replay", "moved"}
                                 /\ e.part = n /\ e.grp = g
                                 /\ ~isSpindleStopCommand(e.ln))

ShapeOfCall(n, g) ==
    [k \in 1..Len(PushedByCall(n, g)) |->
       <<PushedByCall(n, g)[k].idx, PushedByCall(n, g)[k].role>>]

\* C36: for a tool segment or tool group, any two surviving instances get the
\* same source lines in the same order, spindle stops aside; an operation
\* comment is pushed in place, moved or discarded alike for every instance.
C36_InstancesAlike ==
    (Done /\ Repositioning) =>
      \A i, j \in 1..Len(positions), g \in Groups :
        ShapeOfCall(positions[i].partNum, g) = ShapeOfCall(positions[j].partNum, g)

(******************* claims about programs without tools ********************)
\* The replays of source line idx for instance n.
ReplaysFor(idx, n) == {k \in EmittedFor(idx, n) : Replayed(output[k])}

\* C37: on a source without tool changes every line that carries an X or Y
\* word and no G53 is replayed once for every surviving instance, with the
\* offset of the instance applied, wherever in the program it stands.
C37_EveryMotionLineReplayed ==
    (Done /\ SrcToolLines = {}) =>
      \A idx \in 1..Len(src), i \in 1..Len(positions) :
        hasXY(src[idx]) =>
          /\ Cardinality(ReplaysFor(idx, positions[i].partNum)) = 1
          /\ \A k \in ReplaysFor(idx, positions[i].partNum) :
               /\ \A n \in 1..Len(src[idx].x) :
                    Abs(output[k].ln.x[n] - (src[idx].x[n] + positions[i].offsetX)) <= 5
               /\ \A n \in 1..Len(src[idx].y) :
                    Abs(output[k].ln.y[n] - (src[idx].y[n] + positions[i].offsetY)) <= 5

(********************* claims about the skip set ****************************)
\* The part is a range of two numbers that starts within the parts and ends
\* beyond them.
Overhanging(part, maxParts) ==
    /\ Len(part) = 2
    /\ ~part[1].nan /\ ~part[2].nan
    /\ 1 <= part[1].v /\ part[1].v <= maxParts /\ maxParts < part[2].v

\* C38: for the skip specification in the field and every number of parts from
\* 0 upwards, parseSkipInstances returns numbers of 1..maxParts only; a range
\* that starts within 1..maxParts and ends beyond maxParts passes validation
\* and contributes start..maxParts; the skip set the preview holds lies
\* within 1..totalParts.
C38_SkipSetWithinParts ==
    dialog.open =>
      /\ preview.skipSet \subseteq 1..preview.totalParts
      /\ \A maxParts \in 0..(MaxRows * MaxCols + 1) :
           /\ parseSkipInstances(fields.skipInstances, maxParts) \subseteq 1..maxParts
           /\ \A n \in 1..Len(fields.skipInstances) :
                Overhanging(fields.skipInstances[n], maxParts) =>
                  /\ ~validateSkipInstances(<<fields.skipInstances[n]>>, maxParts).error
                  /\ parseSkipInstances(<<fields.skipInstances[n]>>, maxParts)
                       = fields.skipInstances[n][1].v .. maxParts

\* The field holds a range that ends beyond the four parts of the grid (such
\* as "1, 2-5"): no error is shown and the preview skips parts 1 to 4.
C38_Witness ==
    /\ dialog.open
    /\ preview.totalParts = 4
    /\ \E n \in 1..Len(fields.skipInstances) : Overhanging(fields.skipInstances[n], 4)
    /\ ~preview.skipError.error
    /\ preview.skipSet = 1..4

====
